---- MODULE Spec2Model ----
(***************************************************************************)
(* Confession relay and moderation pipeline of confession_bot.             *)
(*                                                                         *)
(* Text is modelled as a sequence of one-character strings, a message as   *)
(* a sequence of lines.  Time is counted in ticks; the epoch of the model  *)
(* (Epoch) is later than one cooldown window, as Date.now() is.            *)
(***************************************************************************)
EXTENDS Integers, Sequences, FiniteSets, TLC

\* ------------------------------------------------------------------------
\* Bounds of the model
\* ------------------------------------------------------------------------
MaxCodecId == 1100
MaxPostDigits == 2
WindowTicks == 2
MaxTicks == 2
MaxFanPress == 1
MaxUpd == 1
MaxAttempts == 2
MaxFree == 1
MaxPress == 2
MaxGrant == 1
MaxCmd == 1
MaxRaceUpd == 2
MaxRacePress == 2
MaxRaceGrant == 2
MaxUnban == 1
MaxRefUpd == 2
MaxCreditGrant == 2
MaxChain == 27
MaxWalks == 1
MaxComments == 3
MaxResolverTicks == 3
MaxReads == 3
MaxReadTicks == 3
MaxTopicCmd == 1
MaxTopic == 2
MaxThread == 2
MaxPinPress == 1
MaxCalls == 3
MaxLimiterTicks == 3
MaxMapPress == 2
MaxMapPost == 2
MaxMapCalls == 3
MaxGroupMsg == 3
MaxRoleCmd == 3
MaxNoticeUpd == 1
MaxNoticePress == 2
MaxChargeUpd == 2
MaxChargeTicks == 1
MaxDelReads == 2
GroupChat == 0 - 8

\* ------------------------------------------------------------------------
\* Program constants (chat ids are scaled to small integers of the same sign)
\* ------------------------------------------------------------------------
Encryption == 32
ConfessionLimitResetMs == WindowTicks
LOG_GROUP_ID == 0 - 1
CHAT_ID == 0 - 2
CHANNEL_ID == 0 - 3
REVIEW_ID == 0 - 4
BACKUP_ID == 0 - 5

\* ------------------------------------------------------------------------
\* Identity codec: Number.prototype.toString(32) and parseInt(s, 32)
\* ------------------------------------------------------------------------
DigitChars ==
  << "0", "1", "2", "3", "4", "5", "6", "7", "8", "9", "a", "b", "c", "d", "e", "f",
     "g", "h", "i", "j", "k", "l", "m", "n", "o", "p", "q", "r", "s", "t", "u", "v" >>

UpperChars ==
  << "A", "B", "C", "D", "E", "F", "G", "H", "I", "J", "K",
     "L", "M", "N", "O", "P", "Q", "R", "S", "T", "U", "V" >>

\* value of a character as a digit, -1 when it is no digit in any radix <= 32
CharVal(c) ==
  IF \E i \in 1..Len(DigitChars) : DigitChars[i] = c
    THEN (CHOOSE i \in 1..Len(DigitChars) : DigitChars[i] = c) - 1
    ELSE IF \E i \in 1..Len(UpperChars) : UpperChars[i] = c
      THEN (CHOOSE i \in 1..Len(UpperChars) : UpperChars[i] = c) + 9
      ELSE 0 - 1

IsDigit(c, radix) == CharVal(c) >= 0 /\ CharVal(c) < radix

\* a JavaScript number: NaN or an integer
NaN == [nan |-> TRUE, val |-> 0]
Num(n) == [nan |-> FALSE, val |-> n]

RECURSIVE NatToString(_, _)
NatToString(n, radix) ==
  IF n < radix THEN << DigitChars[n + 1] >>
  ELSE NatToString(n \div radix, radix) \o << DigitChars[(n % radix) + 1] >>

\* x.toString(radix) of a JavaScript number x
ToStringRadix(x, radix) ==
  IF x.nan THEN << "N", "a", "N" >>
  ELSE IF x.val < 0 THEN << "-" >> \o NatToString(0 - x.val, radix)
  ELSE NatToString(x.val, radix)

RECURSIVE SkipSpaces(_)
SkipSpaces(s) == IF s # << >> /\ Head(s) = " " THEN SkipSpaces(Tail(s)) ELSE s

\* number of leading characters of s that are digits of the radix
RECURSIVE DigitRun(_, _)
DigitRun(s, radix) ==
  IF s # << >> /\ IsDigit(Head(s), radix) THEN 1 + DigitRun(Tail(s), radix) ELSE 0

RECURSIVE DigitsValue(_, _, _)
DigitsValue(s, radix, acc) ==
  IF s = << >> THEN acc ELSE DigitsValue(Tail(s), radix, acc * radix + CharVal(Head(s)))

\* parseInt(s, radix): leading blanks, an optional sign, the longest run of digits
ParseInt(s, radix) ==
  LET t == SkipSpaces(s)
      neg == t # << >> /\ Head(t) = "-"
      u == IF t # << >> /\ (Head(t) = "-" \/ Head(t) = "+") THEN Tail(t) ELSE t
      k == DigitRun(u, radix)
      v == DigitsValue(SubSeq(u, 1, k), radix, 0)
  IN IF k = 0 THEN NaN ELSE Num(IF neg THEN 0 - v ELSE v)

\* the tag written for user id u, and its decoding
Encode(u) == ToStringRadix(Num(u), Encryption)

\* mutant: parseInt called without the radix reads the tag as a decimal number
DecodeDecimal(tag) == ParseInt(tag, 10)

Decode(tag) == ParseInt(tag, Encryption)

\* ------------------------------------------------------------------------
\* The header Confession-<tag>-<postId> and the pattern that reads it
\* ------------------------------------------------------------------------
HeaderPrefix == << "C", "o", "n", "f", "e", "s", "s", "i", "o", "n", "-" >>

IsAlnum(c) ==
  \/ CharVal(c) >= 0
  \/ c \in {"w", "x", "y", "z", "W", "X", "Y", "Z"}

IsDecimal(c) == CharVal(c) >= 0 /\ CharVal(c) < 10

RECURSIVE AlnumRun(_)
AlnumRun(s) == IF s # << >> /\ IsAlnum(Head(s)) THEN 1 + AlnumRun(Tail(s)) ELSE 0

RECURSIVE DecimalRun(_)
DecimalRun(s) == IF s # << >> /\ IsDecimal(Head(s)) THEN 1 + DecimalRun(Tail(s)) ELSE 0

Drop(s, n) == SubSeq(s, n + 1, Len(s))

StartsWith(s, p) == Len(s) >= Len(p) /\ SubSeq(s, 1, Len(p)) = p

\* does /Confession-([A-Za-z0-9]+)-(\d+)/ match at position i of the body
HeaderAt(body, i) ==
  LET rest == Drop(body, i - 1)
      afterP == Drop(rest, Len(HeaderPrefix))
      a == AlnumRun(afterP)
      afterT == Drop(afterP, a)
  IN /\ StartsWith(rest, HeaderPrefix)
     /\ a > 0
     /\ afterT # << >>
     /\ Head(afterT) = "-"
     /\ DecimalRun(Tail(afterT)) > 0

HasHeader(body) == \E i \in 1..Len(body) : HeaderAt(body, i)

\* the groups ([A-Za-z0-9]+, \d+) of the leftmost match
HeaderGroups(body) ==
  LET i == CHOOSE j \in 1..Len(body) :
             HeaderAt(body, j) /\ \A k \in 1..(j - 1) : ~HeaderAt(body, k)
      afterP == Drop(body, i - 1 + Len(HeaderPrefix))
      a == AlnumRun(afterP)
      afterT == Drop(afterP, a + 1)
  IN [encUser |-> SubSeq(afterP, 1, a), postStr |-> SubSeq(afterT, 1, DecimalRun(afterT))]

\* `Confession-${userID.toString(Encryption)}-${postId}`
HeaderLine(x, postId) ==
  HeaderPrefix \o ToStringRadix(x, Encryption) \o << "-" >> \o NatToString(postId, 10)

\* ------------------------------------------------------------------------
\* linkChecker (services/hooks.ts)
\* ------------------------------------------------------------------------
LowerOf(c) ==
  IF \E i \in 1..Len(UpperChars) : UpperChars[i] = c
    THEN DigitChars[(CHOOSE i \in 1..Len(UpperChars) : UpperChars[i] = c) + 10]
    ELSE IF c = "W" THEN "w" ELSE c

ToLowerCase(s) == [i \in 1..Len(s) |-> LowerOf(s[i])]

Includes(s, p) == \E i \in 1..(Len(s) + 1) : StartsWith(Drop(s, i - 1), p)

linkChecker(text) ==
  \/ Includes(ToLowerCase(text), << "t", ".", "m", "e" >>)
  \/ Includes(ToLowerCase(text), << "h", "t", "t", "p" >>)
  \/ Includes(ToLowerCase(text), << "w", "w", "w" >>)

\* ------------------------------------------------------------------------
\* State
\* ------------------------------------------------------------------------
VARIABLES
  now,            \* Date.now(), in ticks
  store,          \* table "session": user id -> UserData or NoRow
  userCache,      \* db.ts userCache: user id -> NoEntry or [value, ts]
  postUserCache,  \* bot.ts postUserCache: post id -> [uid, ts]
  postUserMap,    \* table "post_user_map": post id -> user id
  config,         \* table "config": chat id -> Config
  chatIdsCache,   \* db.ts chatIdsCache: NoEntry or [value, ts]
  topicCache,     \* bot.ts topicCache: chat id -> thread id (0: undefined)
  review,         \* messages of the review chat, message id = index
  channel,        \* posts of the public channel, post id = index
  pinned,         \* post ids for which pinChatMessage was called
  sent,           \* every other outbound message, as a set of records
  upd,            \* submission updates in arrival order
  presses,        \* callback queries of the review menu, not yet handled
  nPress,         \* number of button presses so far
  dec,            \* the decision handler in progress (the review chat is one key)
  fan,            \* fan-out tasks, one per pass and chat
  nPass,          \* number of fan-out passes started
  nGrant,         \* number of /grant commands so far
  nUnban,         \* number of /unban commands so far
  nCmd,           \* number of /broadcast commands so far
  rsv,            \* the discussion-chat handler in progress (the chat is one key)
  postIdCache,    \* db.ts postIdCache: post id -> [userId, ts]
  readers,        \* calls of readChatIDAll on their own, with what each returned
  pin,            \* calls of pinChatMessage for a channel post, one task per pass
  thr,            \* the outbound limiter of each admission class
  mapLog,         \* the calls of mapPostToUser that reached the table, in order
  nTopic,         \* number of /settopic and /cleartopic commands so far
  grp,            \* text updates outside the four service chats, with their logGroup call
  cu, cpost,      \* codec round trip: a user id and a post id
  ctag, cdec,     \*   the tag of the review message and its decoding
  chdr, cres      \*   the header of the channel post and the id resolved from it

auxVars == << rsv, postIdCache, readers, pin, thr, mapLog, nTopic, grp >>

pipeVars ==
  << now, store, userCache, postUserCache, postUserMap, config, chatIdsCache,
     topicCache, review, channel, pinned, sent, upd, presses, nPress, dec, fan,
     nPass, nGrant, nUnban, nCmd, auxVars >>

codecVars == << cu, cpost, ctag, cdec, chdr, cres >>

vars == << pipeVars, codecVars, auxVars >>

Users == {1, 2}
Groups == {0 - 6, 0 - 7}
Epoch == ConfessionLimitResetMs + 1
USER_TTL_MS == 1
CHATIDS_TTL_MS == 2

NoRow == [absent |-> TRUE]
NoEntry == [empty |-> TRUE]

\* session({ userdata: { initial } })
InitialUserData ==
  [confessionTime |-> 0, confessions |-> << >>, isBanned |-> FALSE,
   freeConfessions |-> 0, refby |-> 0]

Medias == {"text", "photo", "audio", "voice"}
Leads == { << "z" >>, << "2" >> }
Buttons == {"Approve", "Broadcast", "Discard", "Ban"}

IdleDec == [pc |-> "idle"]

Contents == Leads \cup { << >>, << "w", "w", "w" >> }
Caption == << "c" >>
AtUsername == << "@" >>

\* readID (services/db.ts): the cached value while fresh, else the stored row
ReadIDHit(x) ==
  /\ ~x.nan /\ x.val \in Users
  /\ userCache[x.val] # NoEntry
  /\ now - userCache[x.val].ts < USER_TTL_MS

ReadID(x) ==
  IF x.nan \/ x.val \notin Users THEN NoRow
  ELSE IF ReadIDHit(x) THEN userCache[x.val].value
  ELSE store[x.val]

ReadIDCache(x) ==
  IF x.nan \/ x.val \notin Users \/ ReadIDHit(x) \/ store[x.val] = NoRow THEN userCache
  ELSE [userCache EXCEPT ![x.val] = [value |-> store[x.val], ts |-> now]]

\* writeID (services/db.ts): upsert of the row, then the cache entry
WriteIDStore(id, value) == [store EXCEPT ![id] = value]
WriteIDCache(id, value) == [userCache EXCEPT ![id] = [value |-> value, ts |-> now]]

\* sequentialize(constraints): updates of one user run in arrival order
Released(i) ==
  \A j \in 1..(i - 1) :
    upd[j].user = upd[i].user => upd[j].pc \in {"handled", "done", "failed"}

\* mutant: the window is closed one tick too late
InCooldownInclusive(s, t) ==
  /\ t - s.confessionTime <= ConfessionLimitResetMs
  /\ s.confessionTime # 0
  /\ s.freeConfessions = 0

\* the cooldown test of /confess and /post
InCooldown(s, t) ==
  /\ t - s.confessionTime < ConfessionLimitResetMs
  /\ s.confessionTime # 0
  /\ s.freeConfessions = 0

\* mutant: a credit is consumed whenever one is left
UsesCreditAlways(s, t) == s.freeConfessions > 0

\* the bonus-credit test of /confess and /post
UsesCredit(s, t) ==
  /\ s.freeConfessions > 0
  /\ t - s.confessionTime < ConfessionLimitResetMs

\* first text of the pending item, before the tag is written
RawLines(cmd, u, text) ==
  IF cmd = "confess" THEN << text >>
  ELSE << text, NatToString(u, 10), AtUsername, Caption >>

\* text of the pending item after editMessageText / editMessageCaption
TagLines(cmd, u, text) ==
  IF cmd = "confess" THEN << Encode(u), text >> ELSE << Encode(u), Caption >>

\* audit text of the banned path: name, id, @username, content
AuditLines(cmd, u, text) ==
  IF cmd = "confess" THEN << << "n" >>, NatToString(u, 10), AtUsername, text >>
  ELSE << text, NatToString(u, 10), AtUsername, Caption >>

\* ------------------------------------------------------------------------
\* Submissions: /confess and /post
\* ------------------------------------------------------------------------
\* session middleware: the user's session is read when the update arrives
Arrive(u) ==
  /\ upd' = Append(upd,
       [user |-> u, pc |-> "waiting", outcome |-> "none",
        sess |-> IF store[u] = NoRow THEN InitialUserData ELSE store[u],
        seen |-> IF store[u] = NoRow THEN InitialUserData ELSE store[u],
        cmd |-> "none", media |-> "none", text |-> << >>, dur |-> 0, msg |-> 0,
        used |-> FALSE, tCheck |-> 0])
  /\ UNCHANGED << now, store, userCache, postUserCache, postUserMap, config,
                  chatIdsCache, topicCache, review, channel, pinned, sent,
                  presses, nPress, dec, fan, nPass, nGrant, nUnban, nCmd, codecVars, auxVars >>

\* mutant: the length test rejects what the reply announces, more than 120 seconds
StartOutcome120(s, cmd, dm, media, text, dur) ==
  IF ~dm THEN "notDM"
  ELSE IF InCooldown(s, now) THEN "cooldown"
  ELSE IF cmd = "confess" /\ linkChecker(text) THEN "link"
  ELSE IF cmd = "confess" /\ Len(text) = 0 THEN "empty"
  ELSE IF cmd = "post" /\ media = "none" THEN "nomedia"
  ELSE IF s.isBanned THEN "banned"
  ELSE IF cmd = "post" /\ media \in {"audio", "voice"} /\ dur > 120 THEN "toolong"
  ELSE "pending"

\* the outcome of the synchronous checks of the handler
StartOutcome(s, cmd, dm, media, text, dur) ==
  IF ~dm THEN "notDM"
  ELSE IF InCooldown(s, now) THEN "cooldown"
  ELSE IF cmd = "confess" /\ linkChecker(text) THEN "link"
  ELSE IF cmd = "confess" /\ Len(text) = 0 THEN "empty"
  ELSE IF cmd = "post" /\ media = "none" THEN "nomedia"
  ELSE IF s.isBanned THEN "banned"
  ELSE IF cmd = "post" /\ media \in {"audio", "voice"} /\ dur > 121 THEN "toolong"
  ELSE "pending"

\* the handler up to its first awaited call: the checks, then either a reply,
\* or the banned path, or the pending item is sent to the review chat with the menu
Start(i, cmd, dm, media, text, dur) ==
  /\ i \in 1..Len(upd)
  /\ upd[i].pc = "waiting"
  /\ Released(i)
  /\ cmd = "confess" => media = "text"
  /\ cmd = "post" => media \in {"none", "photo", "audio", "voice"} /\ text \in Leads
  /\ LET o == StartOutcome(upd[i].sess, cmd, dm, media, text, dur)
         u == upd[i].user
         live == o \in {"banned", "pending"}
     IN /\ upd' = [upd EXCEPT ![i] =
               [@ EXCEPT !.outcome = o, !.tCheck = now,
                         !.cmd = cmd, !.media = media, !.text = text,
                         !.dur = IF media \in {"audio", "voice"} THEN dur ELSE 0,
                         !.msg = IF o = "pending" THEN Len(review) + 1 ELSE @,
                         !.pc = IF o = "banned" THEN "banned"
                                ELSE IF o = "pending" THEN "sent" ELSE "handled"]]
        /\ sent' = IF live THEN sent
                   ELSE sent \cup {[to |-> IF o = "notDM" THEN GroupChat ELSE u,
                                    kind |-> o, src |-> << "upd", i >>]}
        /\ review' = IF o = "pending"
                       THEN Append(review,
                              [media |-> media, lines |-> RawLines(cmd, u, text),
                               menu |-> TRUE, deleted |-> FALSE, author |-> u,
                               of |-> i, kind |-> "item"])
                       ELSE review
  /\ UNCHANGED << now, store, userCache, postUserCache, postUserMap, config,
                  chatIdsCache, topicCache, channel, pinned,
                  presses, nPress, dec, fan, nPass, nGrant, nUnban, nCmd, codecVars, auxVars >>

\* the silent discard path of a banned user
BannedPath(i) ==
  /\ i \in 1..Len(upd)
  /\ upd[i].pc = "banned"
  /\ LET u == upd[i].user
     IN /\ sent' = sent \cup
               { [to |-> u, kind |-> "discarded", src |-> << "upd", i >>],
                 [to |-> BACKUP_ID, kind |-> "audit", src |-> << "upd", i >>] }
        /\ review' = Append(review,
               [media |-> upd[i].media, lines |-> AuditLines(upd[i].cmd, u, upd[i].text),
                menu |-> FALSE, deleted |-> FALSE, author |-> u, of |-> i,
                kind |-> "audit"])
        /\ upd' = [upd EXCEPT ![i] =
               [@ EXCEPT !.pc = "handled", !.sess = [@ EXCEPT !.confessionTime = now]]]
  /\ UNCHANGED << now, store, userCache, postUserCache, postUserMap, config,
                  chatIdsCache, topicCache, channel, pinned,
                  presses, nPress, dec, fan, nPass, nGrant, nUnban, nCmd, codecVars, auxVars >>

\* mutant: the credit is charged and confessionTime is left as it was
ChargedOnly(s, t) ==
  [s EXCEPT !.freeConfessions = IF UsesCredit(s, t) THEN @ - 1 ELSE @]

\* the session after the credit test and confessionTime = Date.now()
Charged(s, t) ==
  [s EXCEPT !.freeConfessions = IF UsesCredit(s, t) THEN @ - 1 ELSE @,
            !.confessionTime = t]

\* the rest of an accepted submission: the tag becomes the first line of the
\* pending item (the edit fails on a deleted message and the handler throws),
\* the backup copy is sent and the throttle is charged
EditReview(i) ==
  /\ i \in 1..Len(upd)
  /\ upd[i].pc = "sent"
  /\ IF review[upd[i].msg].deleted
       THEN /\ upd' = [upd EXCEPT ![i] = [@ EXCEPT !.pc = "failed"]]
            /\ UNCHANGED << review, sent >>
       ELSE /\ review' = [review EXCEPT ![upd[i].msg] =
                 [@ EXCEPT !.lines = TagLines(upd[i].cmd, upd[i].user, upd[i].text),
                           !.menu = TRUE]]
            /\ sent' = sent \cup {[to |-> BACKUP_ID, kind |-> "backup",
                                   src |-> << "upd", i >>]}
            /\ upd' = [upd EXCEPT ![i] =
                 [@ EXCEPT !.pc = "handled", !.used = UsesCredit(upd[i].sess, now),
                           !.sess = Charged(upd[i].sess, now)]]
  /\ UNCHANGED << now, store, userCache, postUserCache, postUserMap, config,
                  chatIdsCache, topicCache, channel, pinned,
                  presses, nPress, dec, fan, nPass, nGrant, nUnban, nCmd, codecVars, auxVars >>

\* the same part of the handler when one of its awaited calls is rejected by
\* the API (step "edit": editMessageText / editMessageCaption; step "backup":
\* the copy to the backup chat): the handler throws at that call, before the
\* credit test and confessionTime = Date.now()
EditReviewFails(i, step) ==
  /\ i \in 1..Len(upd)
  /\ upd[i].pc = "sent"
  /\ step \in {"edit", "backup"}
  /\ review' = IF step = "backup" /\ ~review[upd[i].msg].deleted
                 THEN [review EXCEPT ![upd[i].msg] =
                        [@ EXCEPT !.lines = TagLines(upd[i].cmd, upd[i].user, upd[i].text),
                                  !.menu = TRUE]]
                 ELSE review
  /\ upd' = [upd EXCEPT ![i] = [@ EXCEPT !.pc = "failed"]]
  /\ UNCHANGED << now, store, userCache, postUserCache, postUserMap, config,
                  chatIdsCache, topicCache, channel, pinned, sent,
                  presses, nPress, dec, fan, nPass, nGrant, nUnban, nCmd, codecVars, auxVars >>

\* session middleware: the session object is written back after the handler
WriteBack(i) ==
  /\ i \in 1..Len(upd)
  /\ upd[i].pc = "handled"
  /\ store' = [store EXCEPT ![upd[i].user] = upd[i].sess]
  /\ upd' = [upd EXCEPT ![i] = [@ EXCEPT !.pc = "done"]]
  /\ UNCHANGED << now, userCache, postUserCache, postUserMap, config,
                  chatIdsCache, topicCache, review, channel, pinned, sent,
                  presses, nPress, dec, fan, nPass, nGrant, nUnban, nCmd, codecVars, auxVars >>

Tick ==
  /\ now' = now + 1
  /\ UNCHANGED << store, userCache, postUserCache, postUserMap, config,
                  chatIdsCache, topicCache, review, channel, pinned, sent, upd,
                  presses, nPress, dec, fan, nPass, nGrant, nUnban, nCmd, codecVars, auxVars >>

\* /grant <id> <n> in the review chat
Grant(u, n) ==
  /\ dec.pc = "idle"
  /\ nGrant' = nGrant + 1
  /\ LET userinfo == ReadID(Num(u))
     IN IF userinfo = NoRow
          THEN UNCHANGED << store, userCache, sent >>
          ELSE LET v == [userinfo EXCEPT !.freeConfessions = @ + n]
               IN /\ store' = WriteIDStore(u, v)
                  /\ userCache' = WriteIDCache(u, v)
                  /\ sent' = sent \cup {[to |-> REVIEW_ID, kind |-> "granted",
                                         src |-> << "grant", nGrant >>]}
  /\ UNCHANGED << now, postUserCache, postUserMap, config,
                  chatIdsCache, topicCache, review, channel, pinned, upd,
                  presses, nPress, dec, fan, nPass, nUnban, nCmd, codecVars, auxVars >>

\* isNaN(Number(ctx.match.trim())): false for a run of decimal digits (and for "")
IsNumeric(s) == \A k \in 1..Len(s) : IsDecimal(s[k])

\* Number(ctx.match.trim()) of such a string
NumberOf(s) == DigitsValue(s, 10, 0)

\* /ref <id> and /refby <id>: the handler of an update of the referee
Ref(i, arg) ==
  /\ i \in 1..Len(upd)
  /\ upd[i].pc = "waiting"
  /\ Released(i)
  /\ LET s == upd[i].sess
         u == upd[i].user
         r == NumberOf(arg)
         userinfo == IF IsNumeric(arg) THEN ReadID(Num(r)) ELSE NoRow
         grant == s.refby = 0 /\ IsNumeric(arg) /\ userinfo # NoRow
         v == [userinfo EXCEPT !.freeConfessions = @ + 1]
     IN /\ upd' = [upd EXCEPT ![i] =
               [@ EXCEPT !.pc = "handled", !.cmd = "ref", !.tCheck = now,
                         !.text = arg,
                         !.outcome = IF grant THEN "refgranted" ELSE "refnone",
                         !.sess = IF grant
                                    THEN [s EXCEPT !.refby = r, !.freeConfessions = @ + 1]
                                    ELSE s]]
        /\ store' = IF grant THEN WriteIDStore(r, v) ELSE store
        /\ userCache' = IF grant THEN WriteIDCache(r, v)
                        ELSE IF s.refby = 0 /\ IsNumeric(arg) THEN ReadIDCache(Num(r))
                        ELSE userCache
        /\ sent' = IF grant
                     THEN sent \cup {[to |-> u, kind |-> "refgranted", src |-> << "upd", i >>]}
                     ELSE sent
  /\ UNCHANGED << now, postUserCache, postUserMap, config, chatIdsCache, topicCache,
                  review, channel, pinned, presses, nPress, dec, fan, nPass,
                  nGrant, nUnban, nCmd, codecVars, auxVars >>

\* /unban <id> in the review chat
Unban(u) ==
  /\ dec.pc = "idle"
  /\ nUnban' = nUnban + 1
  /\ LET userdata == ReadID(Num(u))
     IN IF userdata = NoRow
          THEN UNCHANGED << store, userCache, sent >>
          ELSE LET v == [userdata EXCEPT !.isBanned = FALSE]
               IN /\ store' = WriteIDStore(u, v)
                  /\ userCache' = WriteIDCache(u, v)
                  /\ sent' = sent \cup {[to |-> REVIEW_ID, kind |-> "unbanned",
                                         src |-> << "unban", nUnban >>]}
  /\ UNCHANGED << now, postUserCache, postUserMap, config,
                  chatIdsCache, topicCache, review, channel, pinned, upd,
                  presses, nPress, dec, fan, nPass, nGrant, nCmd, codecVars, auxVars >>

\* ------------------------------------------------------------------------
\* The review menu: Approve, Broadcast, Discard, Ban
\* ------------------------------------------------------------------------
\* a moderator presses a button of a review message that shows the menu
Press(b, m) ==
  /\ m \in 1..Len(review)
  /\ review[m].menu /\ ~review[m].deleted
  /\ nPress' = nPress + 1
  /\ presses' = Append(presses,
       [button |-> b, msg |-> m, media |-> review[m].media,
        lines |-> review[m].lines, n |-> nPress + 1])
  /\ UNCHANGED << now, store, userCache, postUserCache, postUserMap, config,
                  chatIdsCache, topicCache, review, channel, pinned, sent, upd,
                  dec, fan, nPass, nGrant, nUnban, nCmd, codecVars, auxVars >>

\* which branches test Number.isNaN(userID) before publishing
ChecksNaN(b, media) ==
  \/ b = "Approve"
  \/ b = "Broadcast" /\ media \in {"voice", "text"}

\* which branches call rememberPostUser / mapPostToUser
Remembers(b, media) == b = "Approve" \/ (b = "Broadcast" /\ media = "text")
MapsPost(b, media) == b = "Approve"

\* msg.split("\n").slice(1)
MessageOf(lines) == Tail(lines)

\* what is first sent to the channel: the message for text, the whole caption else
FirstPublished(media, lines) == IF media = "text" THEN MessageOf(lines) ELSE lines

\* rememberPostUser (bot.ts)
rememberPostUser(cache, postId, x) ==
  IF postId = 0 \/ x.nan \/ x.val = 0 THEN cache
  ELSE (postId :> [uid |-> x.val, ts |-> now]) @@ cache

\* mutant: a plain insert, as into a table without the primary key
mapPostToUserInsert(map, postId, x) ==
  IF postId = 0 \/ x.nan \/ x.val = 0 THEN map
  ELSE Append(map, [post_id |-> postId, user_id |-> x.val])

\* mapPostToUser (services/db.ts): upsert into post_user_map, whose primary
\* key is post_id; the table is the sequence of its rows
mapPostToUser(map, postId, x) ==
  IF postId = 0 \/ x.nan \/ x.val = 0 THEN map
  ELSE IF \E k \in 1..Len(map) : map[k].post_id = postId
    THEN [k \in 1..Len(map) |->
            IF map[k].post_id = postId
              THEN [post_id |-> postId, user_id |-> x.val] ELSE map[k]]
    ELSE Append(map, [post_id |-> postId, user_id |-> x.val])

\* the calls that reach the table, in order
mapLogged(log, postId, x) ==
  IF postId = 0 \/ x.nan \/ x.val = 0 THEN log
  ELSE Append(log, [post_id |-> postId, user_id |-> x.val])

\* how often a branch calls mapPostToUser: the photo branch of Approve thrice
MapCalls(b, media) ==
  IF b # "Approve" THEN 0 ELSE IF media = "photo" THEN 3 ELSE 1

RECURSIVE MapRepeated(_, _, _, _)
MapRepeated(map, postId, x, k) ==
  IF k = 0 THEN map ELSE MapRepeated(mapPostToUser(map, postId, x), postId, x, k - 1)

RECURSIVE LogRepeated(_, _, _, _)
LogRepeated(log, postId, x, k) ==
  IF k = 0 THEN log ELSE LogRepeated(mapLogged(log, postId, x), postId, x, k - 1)

\* safePin(api, chatId, messageId, tries = 3) and its wait of 500 * (i + 1)
PIN_TRIES == 3
PIN_BACKOFF_MS == 500

\* the media branches of Broadcast pin through safePin; the text branch and
\* /broadcast call pinChatMessage once
PinTries(by, media) == IF by = "Broadcast" /\ media # "text" THEN PIN_TRIES ELSE 1

PinTask(pass, post, tries) ==
  [pass |-> pass, post |-> post, tries |-> tries, i |-> 0, st |-> "call",
   waits |-> << >>, errs |-> << >>]

\* ctx.menu.close(): the keyboard of the review message is removed
MenuClosed(rv, m) == IF rv[m].deleted THEN rv ELSE [rv EXCEPT ![m] = [@ EXCEPT !.menu = FALSE]]

\* ctx.deleteMessage()
MessageDeleted(rv, m) == [rv EXCEPT ![m] = [@ EXCEPT !.deleted = TRUE, !.menu = FALSE]]

\* readChatIDAll (services/db.ts)
ChatIdsHit == chatIdsCache # NoEntry /\ now - chatIdsCache.ts < CHATIDS_TTL_MS
ReadChatIDAll == IF ChatIdsHit THEN chatIdsCache.value ELSE DOMAIN config
ReadChatIDAllCache ==
  IF ChatIdsHit THEN chatIdsCache ELSE [value |-> DOMAIN config, ts |-> now]

Excluded == {CHANNEL_ID, LOG_GROUP_ID, CHAT_ID, REVIEW_ID, BACKUP_ID}

\* mutant: the review chat is missing from the exclusion test
FanTargetsReview(groups) == {g \in groups : g < 0 /\ g \notin Excluded \ {REVIEW_ID}}

\* groups.filter((id) => id < 0) without the five fixed destinations
FanTargets(groups) == {g \in groups : g < 0 /\ g \notin Excluded}

FanTasks(groups, pass, post, by) ==
  {[pass |-> pass, chat |-> g, post |-> post, by |-> by, st |-> "start", th |-> 0] :
     g \in FanTargets(groups)}

\* mutant: a sequential loop that a failed send leaves, skipping the chats not yet tried
FanAfterAbort(tasks, t, st) ==
  IF st = "failed"
    THEN {IF x = t THEN [x EXCEPT !.st = st]
          ELSE IF x.pass = t.pass /\ x.st = "start" THEN [x EXCEPT !.st = "skipped"]
          ELSE x : x \in tasks}
    ELSE (tasks \ {t}) \cup {[t EXCEPT !.st = st]}

\* the promise of one chat settles; forEach awaits nothing and every call has
\* its own catch, so the tasks of the other chats are left as they are
FanAfter(tasks, t, st) == (tasks \ {t}) \cup {[t EXCEPT !.st = st]}

\* first step of Approve and Broadcast: decode, publish, rewrite the header, readID
DecPublish ==
  /\ dec.pc = "idle"
  /\ presses # << >>
  /\ Head(presses).button \in {"Approve", "Broadcast"}
  /\ presses' = Tail(presses)
  /\ LET p == Head(presses)
         userID == Decode(p.lines[1])
         post == Len(channel) + 1
         userData == ReadID(userID)
     IN IF ChecksNaN(p.button, p.media) /\ userID.nan
          THEN UNCHANGED << channel, userCache, dec >>
          ELSE /\ channel' = Append(channel,
                    [media |-> p.media, item |-> p.msg, by |-> p.button,
                     first |-> FirstPublished(p.media, p.lines),
                     lines |-> << HeaderLine(userID, post) >> \o MessageOf(p.lines)])
               /\ userCache' = ReadIDCache(userID)
               /\ dec' = IF userData = NoRow THEN IdleDec
                         ELSE [pc |-> "write", button |-> p.button, msg |-> p.msg,
                               media |-> p.media, lines |-> p.lines, n |-> p.n,
                               userID |-> userID, post |-> post, userData |-> userData]
  /\ UNCHANGED << now, store, postUserCache, postUserMap, config,
                  chatIdsCache, topicCache, review, pinned, sent, upd,
                  nPress, fan, nPass, nGrant, nUnban, nCmd, codecVars, auxVars >>

\* second step: writeID, the mappings, the notice to the author, close, delete,
\* fan-out; when the awaited notice is rejected (notified = FALSE: the author
\* has blocked the bot) the handler throws there and the rest is not run
DecRecord(notified) ==
  /\ dec.pc = "write"
  /\ dec.button \in {"Approve", "Broadcast"}
  /\ LET u == dec.userID.val
         v == [dec.userData EXCEPT !.confessions = << dec.post >> \o @]
         groups == ReadChatIDAll
     IN /\ store' = WriteIDStore(u, v)
        /\ userCache' = WriteIDCache(u, v)
        /\ postUserCache' = IF Remembers(dec.button, dec.media)
                              THEN rememberPostUser(postUserCache, dec.post, dec.userID)
                              ELSE postUserCache
        /\ postUserMap' = IF MapsPost(dec.button, dec.media)
                            THEN MapRepeated(postUserMap, dec.post, dec.userID,
                                             MapCalls(dec.button, dec.media))
                            ELSE postUserMap
        /\ mapLog' = LogRepeated(mapLog, dec.post, dec.userID,
                                 MapCalls(dec.button, dec.media))
        /\ IF notified
             THEN /\ sent' = sent \cup {[to |-> u, kind |-> "published",
                                         src |-> << "dec", dec.n >>]}
                  /\ review' = MessageDeleted(MenuClosed(review, dec.msg), dec.msg)
             ELSE UNCHANGED << sent, review >>
        /\ IF notified /\ dec.button = "Broadcast"
             THEN /\ chatIdsCache' = ReadChatIDAllCache
                  /\ pinned' = pinned \cup {dec.post}
                  /\ pin' = pin \cup {PinTask(nPass + 1, dec.post,
                                               PinTries("Broadcast", dec.media))}
                  /\ fan' = fan \cup FanTasks(groups, nPass + 1, dec.post, "Broadcast")
                  /\ nPass' = nPass + 1
             ELSE UNCHANGED << chatIdsCache, pinned, pin, fan, nPass >>
  /\ dec' = IdleDec
  /\ UNCHANGED << now, config, topicCache, channel, upd, presses, nPress,
                  nGrant, nUnban, nCmd, codecVars, grp, rsv, postIdCache, readers,
                  thr, nTopic >>

\* Discard: the notice to the author, then the menu is closed
DecDiscard ==
  /\ dec.pc = "idle"
  /\ presses # << >>
  /\ Head(presses).button = "Discard"
  /\ presses' = Tail(presses)
  /\ LET p == Head(presses)
         userID == Decode(p.lines[1])
     IN IF userID.nan \/ userID.val \notin Users
          THEN UNCHANGED << sent, review >>
          ELSE /\ sent' = sent \cup {[to |-> userID.val, kind |-> "rejected",
                                      src |-> << "dec", p.n >>]}
               /\ review' = MenuClosed(review, p.msg)
  /\ UNCHANGED << now, store, userCache, postUserCache, postUserMap, config,
                  chatIdsCache, topicCache, channel, pinned, upd,
                  nPress, dec, fan, nPass, nGrant, nUnban, nCmd, codecVars, auxVars >>

\* first step of Ban: the branch on the media and readID
DecBanRead ==
  /\ dec.pc = "idle"
  /\ presses # << >>
  /\ Head(presses).button = "Ban"
  /\ presses' = Tail(presses)
  /\ LET p == Head(presses)
         userID == Decode(p.lines[1])
         userdata == ReadID(userID)
     IN IF p.media = "voice" \/ userdata = NoRow
          THEN UNCHANGED << userCache, dec >>
          ELSE /\ userCache' = ReadIDCache(userID)
               /\ dec' = [pc |-> "write", button |-> "Ban", msg |-> p.msg,
                          media |-> p.media, lines |-> p.lines, n |-> p.n,
                          userID |-> userID, post |-> 0, userData |-> userdata]
  /\ UNCHANGED << now, store, postUserCache, postUserMap, config,
                  chatIdsCache, topicCache, review, channel, pinned, sent, upd,
                  nPress, fan, nPass, nGrant, nUnban, nCmd, codecVars, auxVars >>

Banned == << " ", "b", "a", "n", "n", "e", "d" >>

\* `${userID} banned` + '\n' + the caption, or the message of a text item
BanAuditLines(uid, media, lines) ==
  << NatToString(uid, 10) \o Banned >> \o
    (IF media = "text" THEN MessageOf(lines) ELSE lines)

\* second step of Ban: writeID, the audit copy, the notice, the menu is closed
DecBanWrite ==
  /\ dec.pc = "write"
  /\ dec.button = "Ban"
  /\ LET u == dec.userID.val
         v == [dec.userData EXCEPT !.isBanned = TRUE]
     IN /\ store' = WriteIDStore(u, v)
        /\ userCache' = WriteIDCache(u, v)
        /\ review' = Append(MenuClosed(review, dec.msg),
               [media |-> dec.media, lines |-> BanAuditLines(u, dec.media, dec.lines),
                menu |-> FALSE, deleted |-> FALSE, author |-> review[dec.msg].author,
                of |-> review[dec.msg].of, kind |-> "banaudit"])
        /\ sent' = sent \cup {[to |-> u, kind |-> "discarded", src |-> << "dec", dec.n >>]}
  /\ dec' = IdleDec
  /\ UNCHANGED << now, postUserCache, postUserMap, config, chatIdsCache,
                  topicCache, channel, pinned, upd, presses, nPress, fan, nPass,
                  nGrant, nUnban, nCmd, codecVars, auxVars >>

\* ------------------------------------------------------------------------
\* Fan-out: /broadcast and safeBroadcastToChat
\* ------------------------------------------------------------------------
\* /broadcast in the channel, as a reply to post p (0: not a reply)
BroadcastCmd(p) ==
  /\ p \in 0..Len(channel)
  /\ nCmd' = nCmd + 1
  /\ chatIdsCache' = ReadChatIDAllCache
  /\ pinned' = IF p > 0 THEN pinned \cup {p} ELSE pinned
  /\ pin' = pin \cup {PinTask(nPass + 1, p, PinTries("command", "text"))}
  /\ fan' = fan \cup FanTasks(ReadChatIDAll, nPass + 1, p, "command")
  /\ nPass' = nPass + 1
  /\ UNCHANGED << now, store, userCache, postUserCache, postUserMap, config,
                  topicCache, review, channel, sent, upd, presses, nPress, dec,
                  nGrant, nUnban, codecVars, grp, rsv, postIdCache, readers, thr,
                  mapLog, nTopic >>

\* readConfig(chatId)?.threadId, 0 when there is no row or no thread
ConfigThread(g) == IF g \in DOMAIN config THEN config[g].threadId ELSE 0

\* the thread safeBroadcastToChat resolves for a chat
ResolvedThread(g) == IF topicCache[g] # 0 THEN topicCache[g] ELSE ConfigThread(g)

SendOutcomes == {"ok", "notFound", "topic", "other"}

\* safeBroadcastToChat without a cached thread: readConfig(chatId) is awaited
FanReadConfig(t) ==
  /\ t \in fan
  /\ t.st = "start"
  /\ topicCache[t.chat] = 0
  /\ fan' = (fan \ {t}) \cup {[t EXCEPT !.st = "read", !.th = ConfigThread(t.chat)]}
  /\ UNCHANGED << now, store, userCache, postUserCache, postUserMap, config,
                  chatIdsCache, topicCache, review, channel, pinned, sent, upd,
                  presses, nPress, dec, nPass, nGrant, nUnban, nCmd, codecVars,
                  auxVars >>

\* the thread a send goes into: the cached one, else the one just read
SendThread(t) == IF t.st = "read" THEN t.th ELSE topicCache[t.chat]

\* safeBroadcastToChat: the thread read is cached, the send, the error handled
FanSend(t, outcome) ==
  /\ t \in fan
  /\ \/ t.st = "start" /\ topicCache[t.chat] # 0
     \/ t.st = "read"
  /\ outcome \in SendOutcomes
  /\ LET g == t.chat
         th == SendThread(t)
     IN /\ sent' = sent \cup {[to |-> g, kind |-> "notice", res |-> outcome,
                                src |-> << "fan", t.pass, 1, th >>]}
        /\ fan' = FanAfter(fan, t, CASE outcome = "ok" -> "done"
                                     [] outcome = "notFound" -> "removed"
                                     [] outcome = "topic" -> "retry"
                                     [] OTHER -> "failed")
        /\ IF outcome = "notFound"
             THEN /\ config' = [c \in DOMAIN config \ {g} |-> config[c]]
                  /\ chatIdsCache' = NoEntry
                  /\ topicCache' = [topicCache EXCEPT ![g] = 0]
             ELSE /\ topicCache' = [topicCache EXCEPT ![g] = th]
                  /\ UNCHANGED << config, chatIdsCache >>
  /\ UNCHANGED << now, store, userCache, postUserCache, postUserMap,
                  review, channel, pinned, upd, presses, nPress, dec, nPass,
                  nGrant, nUnban, nCmd, codecVars, auxVars >>

\* mutant: the retry is sent without looking at what getChat says
FanRetryAlways(t, forum, outcome) ==
  /\ t \in fan
  /\ t.st = "retry"
  /\ outcome \in SendOutcomes
  /\ sent' = sent \cup {[to |-> t.chat, kind |-> "notice", res |-> outcome,
                         forum |-> forum, src |-> << "fan", t.pass, 2, 1 >>]}
  /\ fan' = FanAfter(fan, t, IF outcome = "ok" THEN "done" ELSE "failed")
  /\ UNCHANGED << now, store, userCache, postUserCache, postUserMap, config,
                  chatIdsCache, topicCache, review, channel, pinned, upd,
                  presses, nPress, dec, nPass, nGrant, nUnban, nCmd, codecVars,
                  auxVars >>

\* 'topic must be specified': getChat, then one send into thread 1 of a forum;
\* whatever error that send has is ignored and the first error is thrown again
FanRetry(t, forum, outcome) ==
  /\ t \in fan
  /\ t.st = "retry"
  /\ outcome \in SendOutcomes
  /\ sent' = IF forum
               THEN sent \cup {[to |-> t.chat, kind |-> "notice", res |-> outcome,
                                forum |-> forum, src |-> << "fan", t.pass, 2, 1 >>]}
               ELSE sent
  /\ fan' = FanAfter(fan, t, IF forum /\ outcome = "ok" THEN "done" ELSE "failed")
  /\ UNCHANGED << now, store, userCache, postUserCache, postUserMap, config,
                  chatIdsCache, topicCache, review, channel, pinned, upd,
                  presses, nPress, dec, nPass, nGrant, nUnban, nCmd, codecVars,
                  auxVars >>

\* what the handler learns about the caller: the status getChatMember
\* returns, "lookupFailed" when the call throws, "noFrom" when the update
\* has no sender
Roles == {"administrator", "creator", "member", "lookupFailed", "noFrom"}

\* the command stops with 'Only admins can change the topic setting.' only
\* when a status was returned and it is neither administrator nor creator
TopicDenied(role) == role \notin {"administrator", "creator", "lookupFailed", "noFrom"}

\* /settopic <thread_id>: after the role check the config row is read and
\* written with the thread, then the topic cache is set
SetTopic(g, th, role) ==
  /\ th > 0
  /\ nTopic' = nTopic + 1
  /\ IF TopicDenied(role)
       THEN /\ sent' = sent \cup {[to |-> g, kind |-> "topicDenied", role |-> role,
                                   src |-> << "topic", nTopic >>]}
            /\ UNCHANGED << config, topicCache >>
       ELSE /\ config' = IF g \in DOMAIN config
                           THEN [config EXCEPT ![g] = [@ EXCEPT !.threadId = th]]
                           ELSE (g :> [isLogged |-> FALSE, threadId |-> th]) @@ config
            /\ topicCache' = [topicCache EXCEPT ![g] = th]
            /\ sent' = sent \cup {[to |-> g, kind |-> "topicSet", role |-> role,
                                   src |-> << "topic", nTopic >>]}
  /\ UNCHANGED << now, store, userCache, postUserCache, postUserMap,
                  chatIdsCache, review, channel, pinned, upd, presses, nPress,
                  dec, fan, nPass, nGrant, nUnban, nCmd, rsv, postIdCache,
                  readers, pin, thr, mapLog, codecVars, grp >>

\* /settopic off and /cleartopic: after the same role check the row is
\* written without a thread and the topic cache entry is set to undefined
ClearTopic(g, role) ==
  /\ nTopic' = nTopic + 1
  /\ IF TopicDenied(role)
       THEN /\ sent' = sent \cup {[to |-> g, kind |-> "topicDenied", role |-> role,
                                   src |-> << "topic", nTopic >>]}
            /\ UNCHANGED << config, topicCache >>
       ELSE /\ config' = IF g \in DOMAIN config
                           THEN [config EXCEPT ![g] = [@ EXCEPT !.threadId = 0]]
                           ELSE (g :> [isLogged |-> FALSE, threadId |-> 0]) @@ config
            /\ topicCache' = [topicCache EXCEPT ![g] = 0]
            /\ sent' = sent \cup {[to |-> g, kind |-> "topicCleared", role |-> role,
                                   src |-> << "topic", nTopic >>]}
  /\ UNCHANGED << now, store, userCache, postUserCache, postUserMap,
                  chatIdsCache, review, channel, pinned, upd, presses, nPress,
                  dec, fan, nPass, nGrant, nUnban, nCmd, rsv, postIdCache,
                  readers, pin, thr, mapLog, codecVars, grp >>

\* ------------------------------------------------------------------------
\* The outbound limiters: apiThrottler({ global, group, out }), each class
\* with strategy BLOCK, a high-water mark, a reservoir and a penalty
\* ------------------------------------------------------------------------
Classes == {"global", "group", "out"}
HIGH_WATER == 2
RESERVOIR == 1
MAX_CONCURRENT == 1
PENALTY == 2

IdleLimiters ==
  [calls |-> {}, unblock |-> [c \in Classes |-> 0],
   reservoir |-> [c \in Classes |-> RESERVOIR]]

CallsIn(c, st) == {k \in thr.calls : k.class = c /\ k.st = st}

\* strategy BLOCK: the class is blocked while its penalty runs, and from the
\* moment a call arrives with the queue at the high-water mark
LimiterBlocked(c) ==
  \/ now < thr.unblock[c]
  \/ Cardinality(CallsIn(c, "queued")) >= HIGH_WATER

\* an outbound call of class c reaches the limiter: it is queued, or, with
\* the class blocked, it is rejected with 'This job has been dropped by
\* Bottleneck' together with every call still queued, and the penalty starts
Submit(c) ==
  /\ LET id == Cardinality(thr.calls) + 1
     IN IF LimiterBlocked(c)
          THEN thr' = [thr EXCEPT
                 !.calls = {IF k.class = c /\ k.st = "queued"
                              THEN [k EXCEPT !.st = "dropped"] ELSE k : k \in @}
                           \cup {[id |-> id, class |-> c, st |-> "dropped"]},
                 !.unblock[c] = now + PENALTY]
          ELSE thr' = [thr EXCEPT
                 !.calls = @ \cup {[id |-> id, class |-> c, st |-> "queued"]}]
  /\ UNCHANGED << now, store, userCache, postUserCache, postUserMap, config,
                  chatIdsCache, topicCache, review, channel, pinned, sent, upd,
                  presses, nPress, dec, fan, nPass, nGrant, nUnban, nCmd, rsv,
                  postIdCache, readers, pin, mapLog, nTopic, codecVars, grp >>

\* a queued call is admitted: a unit of the reservoir, a slot of maxConcurrent
Dispatch(k) ==
  /\ k \in thr.calls
  /\ k.st = "queued"
  /\ now >= thr.unblock[k.class]
  /\ thr.reservoir[k.class] > 0
  /\ Cardinality(CallsIn(k.class, "running")) < MAX_CONCURRENT
  /\ thr' = [thr EXCEPT !.calls = (@ \ {k}) \cup {[k EXCEPT !.st = "running"]},
                        !.reservoir[k.class] = @ - 1]
  /\ UNCHANGED << now, store, userCache, postUserCache, postUserMap, config,
                  chatIdsCache, topicCache, review, channel, pinned, sent, upd,
                  presses, nPress, dec, fan, nPass, nGrant, nUnban, nCmd, rsv,
                  postIdCache, readers, pin, mapLog, nTopic, codecVars, grp >>

\* the call returns from Telegram
Complete(k) ==
  /\ k \in thr.calls
  /\ k.st = "running"
  /\ thr' = [thr EXCEPT !.calls = (@ \ {k}) \cup {[k EXCEPT !.st = "done"]}]
  /\ UNCHANGED << now, store, userCache, postUserCache, postUserMap, config,
                  chatIdsCache, topicCache, review, channel, pinned, sent, upd,
                  presses, nPress, dec, fan, nPass, nGrant, nUnban, nCmd, rsv,
                  postIdCache, readers, pin, mapLog, nTopic, codecVars, grp >>

\* reservoirRefreshInterval has passed: the reservoir is set to its amount
Refill(c) ==
  /\ thr.reservoir[c] < RESERVOIR
  /\ thr' = [thr EXCEPT !.reservoir[c] = RESERVOIR]
  /\ UNCHANGED << now, store, userCache, postUserCache, postUserMap, config,
                  chatIdsCache, topicCache, review, channel, pinned, sent, upd,
                  presses, nPress, dec, fan, nPass, nGrant, nUnban, nCmd, rsv,
                  postIdCache, readers, pin, mapLog, nTopic, codecVars, grp >>

\* ------------------------------------------------------------------------
\* Discussion chat: the comment handler and the post-identity resolver
\* ------------------------------------------------------------------------
MaxHops == 25
POST_USER_TTL == 2
POSTID_TTL_MS == 1

PlainBody == << "w" >>
LinkBody == << "w", "w", "w" >>
ThreadPost == 1

\* bodies of the messages a comment can hang under: no header, the header of
\* user 1 and of user 2, a tag that is no number, post id 0, user id 0
ChainBodies ==
  { PlainBody, HeaderLine(Num(1), ThreadPost), HeaderLine(Num(2), ThreadPost),
    HeaderPrefix \o << "z", "-", "1" >>, HeaderLine(Num(1), 0),
    HeaderLine(Num(0), ThreadPost) }

\* a reply chain of len messages, nearest first, plain but for three of them
ChainOf(len, first, last, beyond) ==
  [i \in 1..len |-> IF i = 1 THEN first
                    ELSE IF i = MaxHops THEN last
                    ELSE IF i = MaxHops + 1 THEN beyond
                    ELSE PlainBody]

NoRoot == [found |-> FALSE, userId |-> 0, postMsgId |-> 0]

\* Number(postStr) || 0 of a run of decimal digits
PostNumber(postStr) == ParseInt(postStr, 10).val

\* the loop of findHeader: cur is the place of the message in the chain
RECURSIVE WalkChain(_, _, _, _)
WalkChain(ch, cur, depth, hops) ==
  IF cur > Len(ch) \/ depth >= hops THEN NoRoot
  ELSE LET body == ch[cur]
           userId == Decode(HeaderGroups(body).encUser)
           postMsgId == PostNumber(HeaderGroups(body).postStr)
       IN IF HasHeader(body) /\ ~userId.nan /\ postMsgId > 0
            THEN [found |-> TRUE, userId |-> userId.val, postMsgId |-> postMsgId]
            ELSE WalkChain(ch, cur + 1, depth + 1, hops)

\* mutant: the walk goes one message further
findHeader26(ch) == WalkChain(ch, 1, 0, MaxHops + 1)

\* findHeader(ctx.message?.reply_to_message)
findHeader(ch) == WalkChain(ch, 1, 0, MaxHops)

\* getPostUser (bot.ts): the remembered user id, 0 for undefined
PostUserFresh(postId) ==
  /\ postId \in DOMAIN postUserCache
  /\ ~(now - postUserCache[postId].ts > POST_USER_TTL)

getPostUser(postId) == IF PostUserFresh(postId) THEN postUserCache[postId].uid ELSE 0

\* what getPostUser leaves of the cache: an expired entry is deleted
getPostUserCache(postId) ==
  IF postId \in DOMAIN postUserCache /\ ~PostUserFresh(postId)
    THEN [q \in DOMAIN postUserCache \ {postId} |-> postUserCache[q]]
    ELSE postUserCache

\* getUserByPostMap (services/db.ts): .eq('post_id', postId).single()
getUserByPostMap(postId) ==
  LET rows == {k \in 1..Len(postUserMap) : postUserMap[k].post_id = postId}
  IN IF Cardinality(rows) = 1
       THEN postUserMap[CHOOSE k \in rows : TRUE].user_id ELSE 0

\* findUserIdByPostId (services/db.ts): the entry of postIdCache while fresh
PostIdHit(postId, t) ==
  postId \in DOMAIN postIdCache /\ t - postIdCache[postId].ts < POSTID_TTL_MS

\* findUserIdByPostId: the rows whose confessions hold the post id
SessionsWithPost(postId) ==
  {u \in Users : store[u] # NoRow
                 /\ \E k \in 1..Len(store[u].confessions) : store[u].confessions[k] = postId}

IdleRsv ==
  [pc |-> "idle", n |-> 0, chain |-> << >>, text |-> << >>, thread |-> 0,
   root |-> NoRoot, cachedUid |-> 0, mappedUid |-> 0, lookups |-> {},
   chatID |-> 0, t0 |-> 0, via |-> "none", viaTs |-> 0, prior |-> FALSE]

\* mutant: the message is sent whatever the resolution gave
RoutableAlways(chatID, postMsgId) == TRUE

\* if (!chatID || chatID === 0 || ... || !postMsgId) return
Routable(chatID, postMsgId) == chatID # 0 /\ postMsgId # 0

\* ctx.api.sendMessage(chatID, ...) of the comment handler
RouteComment(n, chatID, postMsgId) ==
  IF Routable(chatID, postMsgId)
    THEN sent \cup {[to |-> chatID, kind |-> "comment", src |-> << "cmt", n >>]}
    ELSE sent

\* a message of the discussion chat: the link test, the walk up the reply
\* chain and, without a header, the thread id, the remembered user and the
\* query of post_user_map that is awaited next
Comment(ch, text, thread) ==
  /\ rsv.pc \in {"idle", "done"}
  /\ LET n == rsv.n + 1
         root == findHeader(ch)
         base == [IdleRsv EXCEPT !.n = n, !.chain = ch, !.text = text,
                                 !.thread = thread, !.via = rsv.via,
                                 !.viaTs = rsv.viaTs,
                                 !.prior = /\ rsv.via # "none"
                                           /\ thread = ThreadPost
                                           /\ now - rsv.viaTs < POSTID_TTL_MS]
     IN IF linkChecker(text)
          THEN /\ sent' = sent \cup {[to |-> CHAT_ID, kind |-> "linkNotice",
                                      src |-> << "cmt", n >>]}
               /\ rsv' = [base EXCEPT !.pc = "done"]
               /\ UNCHANGED postUserCache
          ELSE IF root.found
            THEN /\ sent' = RouteComment(n, root.userId, root.postMsgId)
                 /\ rsv' = [base EXCEPT !.pc = "done", !.root = root,
                                        !.chatID = root.userId]
                 /\ UNCHANGED postUserCache
            ELSE IF thread > 0
              THEN /\ rsv' = [base EXCEPT !.pc = "map", !.lookups = {"memory"},
                                          !.cachedUid = getPostUser(thread)]
                   /\ postUserCache' = getPostUserCache(thread)
                   /\ UNCHANGED sent
              ELSE /\ rsv' = [base EXCEPT !.pc = "done"]
                   /\ sent' = RouteComment(n, 0, 0)
                   /\ UNCHANGED postUserCache
  /\ UNCHANGED << now, store, userCache, postUserMap, config, chatIdsCache,
                  topicCache, review, channel, pinned, upd, presses, nPress,
                  dec, fan, nPass, nGrant, nUnban, nCmd, postIdCache, readers,
                  pin, thr, mapLog, nTopic, codecVars, grp >>

\* the query of post_user_map returns (ok: without an error); then
\* cachedUid ?? mappedUid ?? await findUserIdByPostId(threadId), whose first
\* step is the test of postIdCache
MapReturn(ok) ==
  /\ rsv.pc = "map"
  /\ LET mapped == IF ok THEN getUserByPostMap(rsv.thread) ELSE 0
         uid == IF rsv.cachedUid # 0 THEN rsv.cachedUid ELSE mapped
         r == [rsv EXCEPT !.mappedUid = mapped,
                          !.lookups = @ \cup (IF ok THEN {"map"} ELSE {"map", "mapError"})]
     IN IF uid # 0
          THEN /\ sent' = RouteComment(rsv.n, uid, rsv.thread)
               /\ rsv' = [r EXCEPT !.pc = "done", !.chatID = uid,
                                   !.via = IF rsv.cachedUid # 0 THEN @ ELSE "map",
                                   !.viaTs = IF rsv.cachedUid # 0 THEN @ ELSE now]
          ELSE IF PostIdHit(rsv.thread, now)
            THEN /\ sent' = RouteComment(rsv.n, postIdCache[rsv.thread].userId, rsv.thread)
                 /\ rsv' = [r EXCEPT !.pc = "done", !.lookups = @ \cup {"postId"},
                                     !.chatID = postIdCache[rsv.thread].userId]
            ELSE /\ rsv' = [r EXCEPT !.pc = "search", !.lookups = @ \cup {"postId"},
                                     !.t0 = now]
                 /\ UNCHANGED sent
  /\ UNCHANGED << now, store, userCache, postUserCache, postUserMap, config,
                  chatIdsCache, topicCache, review, channel, pinned, upd,
                  presses, nPress, dec, fan, nPass, nGrant, nUnban, nCmd,
                  postIdCache, readers, pin, thr, mapLog, nTopic, codecVars, grp >>

\* the search of the session table returns: the first row that holds the
\* post id is cached and taken, an error or no such row gives undefined
SearchReturn(ok) ==
  /\ rsv.pc = "search"
  /\ LET found == IF ok THEN SessionsWithPost(rsv.thread) ELSE {}
         r == [rsv EXCEPT !.lookups = @ \cup (IF ok THEN {"search"}
                                                ELSE {"search", "searchError"})]
     IN IF found # {}
          THEN \E uid \in found :
                 /\ postIdCache' = (rsv.thread :> [userId |-> uid, ts |-> rsv.t0])
                                     @@ postIdCache
                 /\ sent' = RouteComment(rsv.n, uid, rsv.thread)
                 /\ rsv' = [r EXCEPT !.pc = "done", !.chatID = uid,
                                     !.via = "search", !.viaTs = now]
          ELSE /\ rsv' = [r EXCEPT !.pc = "done"]
               /\ sent' = RouteComment(rsv.n, 0, 0)
               /\ UNCHANGED postIdCache
  /\ UNCHANGED << now, store, userCache, postUserCache, postUserMap, config,
                  chatIdsCache, topicCache, review, channel, pinned, upd,
                  presses, nPress, dec, fan, nPass, nGrant, nUnban, nCmd,
                  readers, pin, thr, mapLog, nTopic, codecVars, grp >>

\* mapPostToUser(postId, userId) called on its own
MapPost(postId, userId) ==
  /\ postUserMap' = mapPostToUser(postUserMap, postId, Num(userId))
  /\ mapLog' = mapLogged(mapLog, postId, Num(userId))
  /\ UNCHANGED << now, store, userCache, postUserCache, config, chatIdsCache,
                  topicCache, review, channel, pinned, sent, upd, presses,
                  nPress, dec, fan, nPass, nGrant, nUnban, nCmd, rsv,
                  postIdCache, readers, pin, thr, nTopic, codecVars, grp >>

\* ------------------------------------------------------------------------
\* Pinning the channel post
\* ------------------------------------------------------------------------
PinOutcomes == {"ok", "dropped", "other"}

\* mutant: every error is retried
PinRetriesAny(t, outcome) == t.i < t.tries - 1

\* if (dropped && i < tries - 1)
PinRetries(t, outcome) == outcome = "dropped" /\ t.i < t.tries - 1

\* pinChatMessage of attempt i settles: pinned, or the wait of 500 * (i + 1)
\* is started, or the error is thrown to the caller's catch
PinResult(t, outcome) ==
  /\ t \in pin
  /\ t.st = "call"
  /\ outcome \in PinOutcomes
  /\ pin' = (pin \ {t}) \cup
       {IF outcome = "ok" THEN [t EXCEPT !.st = "pinned"]
        ELSE IF PinRetries(t, outcome)
          THEN [t EXCEPT !.st = "wait", !.errs = Append(@, outcome),
                         !.waits = Append(@, PIN_BACKOFF_MS * (t.i + 1))]
          ELSE [t EXCEPT !.st = "failed", !.errs = Append(@, outcome)]}
  /\ UNCHANGED << now, store, userCache, postUserCache, postUserMap, config,
                  chatIdsCache, topicCache, review, channel, pinned, sent, upd,
                  presses, nPress, dec, fan, nPass, nGrant, nUnban, nCmd, rsv,
                  postIdCache, readers, thr, mapLog, nTopic, codecVars, grp >>

\* the wait is over: continue, i++ and the next pinChatMessage
PinWake(t) ==
  /\ t \in pin
  /\ t.st = "wait"
  /\ pin' = (pin \ {t}) \cup {[t EXCEPT !.st = "call", !.i = @ + 1]}
  /\ UNCHANGED << now, store, userCache, postUserCache, postUserMap, config,
                  chatIdsCache, topicCache, review, channel, pinned, sent, upd,
                  presses, nPress, dec, fan, nPass, nGrant, nUnban, nCmd, rsv,
                  postIdCache, readers, thr, mapLog, nTopic, codecVars, grp >>

\* ------------------------------------------------------------------------
\* readChatIDAll on its own: the test of the cache, the query, its return
\* ------------------------------------------------------------------------
\* a call arrives: the cached list while fresh, else the query is sent
ReadStart ==
  /\ readers' = readers \cup
       {[id |-> Cardinality(readers) + 1, t0 |-> now,
         st |-> IF ChatIdsHit THEN "hit" ELSE "query",
         expired |-> chatIdsCache # NoEntry /\ ~ChatIdsHit,
         gone |-> Groups \ DOMAIN config,
         value |-> IF ChatIdsHit THEN chatIdsCache.value ELSE {}]}
  /\ UNCHANGED << now, store, userCache, postUserCache, postUserMap, config,
                  chatIdsCache, topicCache, review, channel, pinned, sent, upd,
                  presses, nPress, dec, fan, nPass, nGrant, nUnban, nCmd, rsv,
                  postIdCache, pin, thr, mapLog, nTopic, codecVars, grp >>

\* refreshChatIdsCache of the background timer: readChatIDAll(true) does
\* not test the cache
ReadRefresh ==
  /\ readers' = readers \cup
       {[id |-> Cardinality(readers) + 1, t0 |-> now, st |-> "query",
         expired |-> FALSE, gone |-> Groups \ DOMAIN config, value |-> {}]}
  /\ UNCHANGED << now, store, userCache, postUserCache, postUserMap, config,
                  chatIdsCache, topicCache, review, channel, pinned, sent, upd,
                  presses, nPress, dec, fan, nPass, nGrant, nUnban, nCmd, rsv,
                  postIdCache, pin, thr, mapLog, nTopic, codecVars, grp >>

\* the select of a call is run by the database: its rows are those of the
\* config table at that moment
ReadQuery(r) ==
  /\ r \in readers
  /\ r.st = "query"
  /\ readers' = (readers \ {r}) \cup {[r EXCEPT !.st = "rows", !.value = DOMAIN config]}
  /\ UNCHANGED << now, store, userCache, postUserCache, postUserMap, config,
                  chatIdsCache, topicCache, review, channel, pinned, sent, upd,
                  presses, nPress, dec, fan, nPass, nGrant, nUnban, nCmd, rsv,
                  postIdCache, pin, thr, mapLog, nTopic, codecVars, grp >>

\* the query of a call returns: the ids it selected are cached with the
\* time the call started, an error gives undefined and caches nothing
ReadReturn(r, ok) ==
  /\ r \in readers
  /\ r.st = "rows"
  /\ IF ok
       THEN /\ chatIdsCache' = [value |-> r.value, ts |-> r.t0]
            /\ readers' = (readers \ {r}) \cup {[r EXCEPT !.st = "fresh"]}
       ELSE /\ readers' = (readers \ {r})
                            \cup {[r EXCEPT !.st = "error", !.value = {}]}
            /\ UNCHANGED chatIdsCache
  /\ UNCHANGED << now, store, userCache, postUserCache, postUserMap, config,
                  topicCache, review, channel, pinned, sent, upd, presses,
                  nPress, dec, fan, nPass, nGrant, nUnban, nCmd, rsv,
                  postIdCache, pin, thr, mapLog, nTopic, codecVars, grp >>

\* deleteChatID(id), at its completion: the row is deleted and the cached
\* list invalidated
DeleteChatID(g) ==
  /\ g \in DOMAIN config
  /\ config' = [c \in DOMAIN config \ {g} |-> config[c]]
  /\ chatIdsCache' = NoEntry
  /\ UNCHANGED << now, store, userCache, postUserCache, postUserMap,
                  topicCache, review, channel, pinned, sent, upd, presses,
                  nPress, dec, fan, nPass, nGrant, nUnban, nCmd, rsv,
                  postIdCache, readers, pin, thr, mapLog, nTopic, codecVars, grp >>

\* settingsStorage.write for a chat the bot has just met: the row of the
\* chat, then invalidateChatIdsCache
ChatJoin(g) ==
  /\ g \notin DOMAIN config
  /\ config' = (g :> [isLogged |-> FALSE, threadId |-> 0]) @@ config
  /\ chatIdsCache' = NoEntry
  /\ UNCHANGED << now, store, userCache, postUserCache, postUserMap,
                  topicCache, review, channel, pinned, sent, upd, presses,
                  nPress, dec, fan, nPass, nGrant, nUnban, nCmd, rsv,
                  postIdCache, readers, pin, thr, mapLog, nTopic, codecVars, grp >>

\* ------------------------------------------------------------------------
\* logGroup (services/hooks.ts), called and not awaited by the hears(/.*/)
\* handler of every chat but the four service chats
\* ------------------------------------------------------------------------

\* the config session as the session middleware loads it for chat c: the
\* stored value, or initial() when the chat has no row
LoadedConfig(c) ==
  IF c \in DOMAIN config THEN [isLogged |-> config[c].isLogged]
  ELSE [isLogged |-> FALSE]

\* the guards of logGroup before its first awaited call; nextLogTryAt is
\* undefined in every loaded session, being assigned only after an await
LogStarts(c, sess) == ~sess.isLogged /\ c < 0

\* a text update of chat c, up to the end of its middleware: the config
\* session is loaded (a chat without a row is inserted and the id list
\* invalidated), the handler calls logGroup, which runs to its first await
\* (getChat), the handler returns without awaiting it and the session is
\* written back as it is at that moment
GroupMessage(c) ==
  /\ c \notin {CHAT_ID, CHANNEL_ID, LOG_GROUP_ID, BACKUP_ID}
  /\ LET sess == LoadedConfig(c)
     IN /\ grp' = Append(grp,
               [chat |-> c, sess |-> sess, nextLogTryAt |-> 0,
                pc |-> IF LogStarts(c, sess) THEN "getChat" ELSE "skipped"])
        /\ config' = IF c \in DOMAIN config
                       THEN [config EXCEPT ![c] = [@ EXCEPT !.isLogged = sess.isLogged]]
                       ELSE (c :> [isLogged |-> sess.isLogged, threadId |-> 0]) @@ config
        /\ chatIdsCache' = NoEntry
  /\ UNCHANGED << now, store, userCache, postUserCache, postUserMap,
                  topicCache, review, channel, pinned, sent, upd, presses,
                  nPress, dec, fan, nPass, nGrant, nUnban, nCmd, rsv,
                  postIdCache, readers, pin, thr, mapLog, nTopic, codecVars >>

LogOutcomes == {"ok", "error", "retryAfter"}

\* getChat and sendMessage(LOG_GROUP_ID, ...) of a logGroup call return: on
\* success the report is in the log chat and isLogged is set on the session
\* object of that update; on an error with retry_after nextLogTryAt is set
\* on it; the session of that update was written before
LogReport(k, outcome) ==
  /\ k \in 1..Len(grp)
  /\ grp[k].pc = "getChat"
  /\ grp' = [grp EXCEPT ![k] =
       [@ EXCEPT !.pc = IF outcome = "ok" THEN "reported" ELSE "failed",
                 !.sess = IF outcome = "ok" THEN [@ EXCEPT !.isLogged = TRUE] ELSE @,
                 !.nextLogTryAt = IF outcome = "retryAfter" THEN now + 1 ELSE 0]]
  /\ sent' = IF outcome = "ok"
               THEN sent \cup {[to |-> LOG_GROUP_ID, kind |-> "groupLog",
                                chat |-> grp[k].chat, src |-> << "log", k >>]}
               ELSE sent
  /\ UNCHANGED << now, store, userCache, postUserCache, postUserMap, config,
                  chatIdsCache, topicCache, review, channel, pinned, upd, presses,
                  nPress, dec, fan, nPass, nGrant, nUnban, nCmd, rsv,
                  postIdCache, readers, pin, thr, mapLog, nTopic, codecVars >>

\* ------------------------------------------------------------------------
\* The codec on its own: tag of the review message, header of the post
\* ------------------------------------------------------------------------
Blank == << >>

CodecEncode ==
  /\ ctag = Blank
  /\ ctag' = Encode(cu)
  /\ UNCHANGED << pipeVars, cu, cpost, cdec, chdr, cres >>

CodecDecode ==
  /\ ctag # Blank /\ chdr = Blank
  /\ cdec' = Decode(ctag)
  /\ chdr' = HeaderLine(Decode(ctag), cpost)
  /\ UNCHANGED << pipeVars, cu, cpost, ctag, cres >>

CodecResolve ==
  /\ chdr # Blank /\ cres = NaN
  /\ HasHeader(chdr)
  /\ cres' = Decode(HeaderGroups(chdr).encUser)
  /\ UNCHANGED << pipeVars, cu, cpost, ctag, cdec, chdr >>

\* ------------------------------------------------------------------------
\* Specifications
\* ------------------------------------------------------------------------
AllChats == Excluded \cup Users \cup Groups \cup {GroupChat}

InitialConfig(ids) ==
  [c \in ids |-> [isLogged |-> FALSE, threadId |-> IF c = 0 - 7 THEN 2 ELSE 0]]

\* everything but the tables and the caches of the resolver
BaseInit ==
  /\ now = Epoch
  /\ userCache = [u \in Users |-> NoEntry]
  /\ chatIdsCache = NoEntry
  /\ topicCache = [c \in AllChats |-> 0]
  /\ review = << >>
  /\ channel = << >>
  /\ pinned = {}
  /\ sent = {}
  /\ upd = << >>
  /\ presses = << >>
  /\ nPress = 0
  /\ dec = IdleDec
  /\ fan = {}
  /\ nPass = 0
  /\ nGrant = 0
  /\ nUnban = 0
  /\ nCmd = 0
  /\ rsv = IdleRsv
  /\ readers = {}
  /\ pin = {}
  /\ thr = IdleLimiters
  /\ mapLog = << >>
  /\ nTopic = 0
  /\ grp = << >>

\* everything but the two tables session and config
RestInit ==
  /\ BaseInit
  /\ postUserCache = << >>
  /\ postUserMap = << >>
  /\ postIdCache = << >>

PipeInit ==
  /\ RestInit
  /\ store = [u \in Users |-> NoRow]
  /\ config = InitialConfig(Excluded \cup Users \cup Groups)

CodecIdle ==
  /\ cu = 1 /\ cpost = 1
  /\ ctag = Blank /\ cdec = NaN /\ chdr = Blank /\ cres = NaN

Init == PipeInit /\ CodecIdle

StartInputs(i) ==
  \E cmd \in {"confess", "post"}, dm \in BOOLEAN, media \in Medias \cup {"none"},
     text \in Contents, dur \in {121, 122} : Start(i, cmd, dm, media, text, dur)

\* moderation: submissions of every kind and the four decisions, within one tick
Next ==
  \/ \E u \in Users : Len(upd) < MaxUpd /\ Arrive(u)
  \/ \E i \in 1..MaxUpd : StartInputs(i)
  \/ \E i \in 1..MaxUpd : EditReview(i)
  \/ \E i \in 1..MaxUpd : WriteBack(i)
  \/ \E b \in Buttons, m \in 1..Len(review) : nPress < MaxPress /\ Press(b, m)
  \/ DecPublish
  \/ DecRecord(TRUE)
  \/ DecDiscard
  \/ DecBanRead
  \/ DecBanWrite

Spec == Init /\ [][Next]_vars

\* the throttle: one user whose session is already stored, the clock running,
\* a credit granted, a banned user unbanned
StoredSessions ==
  {NoRow} \cup
  { [InitialUserData EXCEPT !.confessionTime = t, !.freeConfessions = f, !.isBanned = b] :
      t \in {0, Epoch}, f \in 0..MaxFree, b \in BOOLEAN }

ThrottleInit ==
  /\ RestInit
  /\ config = InitialConfig(Excluded \cup Users \cup Groups)
  /\ store \in {st \in [Users -> StoredSessions] : \A u \in Users \ {1} : st[u] = NoRow}
  /\ CodecIdle

\* /confess with good, empty and link content; /post without media and with audio
ThrottleInputs(i) ==
  \/ \E dm \in BOOLEAN, text \in {<< "z" >>, << >>, << "w", "w", "w" >>} :
       Start(i, "confess", dm, "text", text, 121)
  \/ \E media \in {"none", "audio"}, dur \in {121, 122} :
       Start(i, "post", TRUE, media, << "z" >>, dur)

ThrottleNext ==
  \/ Len(upd) < MaxAttempts /\ Arrive(1)
  \/ \E i \in 1..MaxAttempts : ThrottleInputs(i)
  \/ \E i \in 1..MaxAttempts : BannedPath(i)
  \/ \E i \in 1..MaxAttempts : EditReview(i)
  \/ \E i \in 1..MaxAttempts : WriteBack(i)
  \/ now < Epoch + MaxTicks /\ Tick
  \/ nGrant < MaxGrant /\ Grant(1, 1)
  \/ nUnban < MaxUnban /\ Unban(1)

ThrottleSpec == ThrottleInit /\ [][ThrottleNext]_vars

\* the fan-out: one text confession, the Broadcast button, /broadcast, the tasks
FanoutInit ==
  /\ RestInit
  /\ store = [u \in Users |-> NoRow]
  /\ \E gs \in SUBSET Groups : config = InitialConfig(Excluded \cup Users \cup gs)
  /\ CodecIdle

FanoutNext ==
  \/ Len(upd) < 1 /\ Arrive(1)
  \/ Start(1, "confess", TRUE, "text", << "z" >>, 121)
  \/ EditReview(1)
  \/ WriteBack(1)
  \/ \E m \in 1..Len(review) : nPress < MaxFanPress /\ Press("Broadcast", m)
  \/ DecPublish
  \/ DecRecord(TRUE)
  \/ \E p \in 0..Len(channel) : nCmd < MaxCmd /\ BroadcastCmd(p)
  \/ \E t \in fan : FanReadConfig(t)
  \/ \E t \in fan, o \in SendOutcomes : FanSend(t, o)
  \/ \E t \in fan, f \in BOOLEAN, o \in SendOutcomes : FanRetry(t, f, o)

FanoutSpec == FanoutInit /\ [][FanoutNext]_vars

\* the topic of a chat: /broadcast passes over the subscribed groups while
\* admins set and clear the topic
TopicNext ==
  \/ nCmd < MaxTopicCmd /\ BroadcastCmd(0)
  \/ \E t \in fan : FanReadConfig(t)
  \/ \E t \in fan, o \in SendOutcomes : FanSend(t, o)
  \/ \E t \in fan, f \in BOOLEAN, o \in SendOutcomes : FanRetry(t, f, o)
  \/ \E g \in Groups, th \in 1..MaxThread : nTopic < MaxTopic /\ SetTopic(g, th, "administrator")
  \/ \E g \in Groups : nTopic < MaxTopic /\ ClearTopic(g, "administrator")

TopicSpec == FanoutInit /\ [][TopicNext]_vars

\* the races on one user's row: the user's own updates (session read at
\* arrival, written back after the handler), decisions on the user's items,
\* /grant and /unban, all within one tick
RaceInit ==
  /\ RestInit
  /\ config = InitialConfig(Excluded \cup Users \cup Groups)
  /\ store = [u \in Users |-> IF u = 1 THEN InitialUserData ELSE NoRow]
  /\ CodecIdle

RaceNext ==
  \/ Len(upd) < MaxRaceUpd /\ Arrive(1)
  \/ \E i \in 1..MaxRaceUpd : Start(i, "confess", TRUE, "text", << "z" >>, 121)
  \/ \E i \in 1..MaxRaceUpd : BannedPath(i)
  \/ \E i \in 1..MaxRaceUpd : EditReview(i)
  \/ \E i \in 1..MaxRaceUpd : WriteBack(i)
  \/ \E b \in {"Approve", "Ban"}, m \in 1..Len(review) :
       nPress < MaxRacePress /\ Press(b, m)
  \/ DecPublish
  \/ DecRecord(TRUE)
  \/ DecBanRead
  \/ DecBanWrite
  \/ nGrant < MaxRaceGrant /\ Grant(1, 1)
  \/ nUnban < MaxUnban /\ Unban(1)

RaceSpec == RaceInit /\ [][RaceNext]_vars

\* the credits: /ref of user 1 naming user 2, an unknown id or no number,
\* /grant with a positive and a negative amount
RefArgs == { << "1" >>, << "2" >>, << "9" >>, << "x" >>, << >> }

CreditInit ==
  /\ RestInit
  /\ config = InitialConfig(Excluded \cup Users \cup Groups)
  /\ store = [u \in Users |-> InitialUserData]
  /\ CodecIdle

CreditNext ==
  \/ Len(upd) < MaxRefUpd /\ Arrive(1)
  \/ \E i \in 1..MaxRefUpd, arg \in RefArgs : Ref(i, arg)
  \/ \E i \in 1..MaxRefUpd : WriteBack(i)
  \/ \E u \in Users, n \in {0 - 1, 1} : nGrant < MaxCreditGrant /\ Grant(u, n)

CreditSpec == CreditInit /\ [][CreditNext]_vars

\* the resolver: comments of the discussion chat under reply chains of every
\* shape, with and without the thread's post remembered, mapped and recorded
\* in a session, the clock running
ChainLengths == {0, 1, MaxHops, MaxHops + 1, MaxChain}

Chains ==
  { ChainOf(len, a, b, c) : len \in ChainLengths, a \in ChainBodies,
                            b \in ChainBodies, c \in ChainBodies }

ResolverInit ==
  /\ BaseInit
  /\ config = InitialConfig(Excluded \cup Users \cup Groups)
  /\ store \in { [u \in Users |-> IF u = 1 THEN [InitialUserData EXCEPT !.confessions = c]
                                  ELSE NoRow] : c \in {<< >>, << ThreadPost >>} }
  /\ postUserCache \in { << >>, ThreadPost :> [uid |-> 1, ts |-> Epoch] }
  /\ postUserMap \in { << >>, << [post_id |-> ThreadPost, user_id |-> 1] >> }
  /\ postIdCache = << >>
  /\ CodecIdle

ResolverNext ==
  \/ \E ch \in Chains, text \in {PlainBody, LinkBody}, thread \in {0, ThreadPost} :
       rsv.n < MaxWalks /\ Comment(ch, text, thread)
  \/ \E ok \in BOOLEAN : MapReturn(ok)
  \/ \E ok \in BOOLEAN : SearchReturn(ok)

ResolverSpec == ResolverInit /\ [][ResolverNext]_vars

\* the fallback: several comments in a row on the thread of one post, most
\* of them without a header above them, the clock running
ShortChains == { << >>, << PlainBody >>, << HeaderLine(Num(2), ThreadPost) >> }

FallbackNext ==
  \/ \E ch \in ShortChains, text \in {PlainBody, LinkBody}, thread \in {0, ThreadPost} :
       rsv.n < MaxComments /\ Comment(ch, text, thread)
  \/ \E ok \in BOOLEAN : MapReturn(ok)
  \/ \E ok \in BOOLEAN : SearchReturn(ok)
  \/ now < Epoch + MaxResolverTicks /\ Tick

FallbackSpec == ResolverInit /\ [][FallbackNext]_vars

\* the chat-id list: reads that overlap, the list cached at the start and
\* growing old, a chat joining
ReadInit ==
  /\ RestInit
  /\ store = [u \in Users |-> NoRow]
  /\ \E gs \in SUBSET Groups : config = InitialConfig(Excluded \cup Users \cup gs)
  /\ CodecIdle

ReadNext ==
  \/ Cardinality(readers) < MaxReads /\ ReadStart
  \/ \E r \in readers : ReadQuery(r)
  \/ \E r \in readers, ok \in BOOLEAN : ReadReturn(r, ok)
  \/ \E g \in Groups : ChatJoin(g)
  \/ now < Epoch + MaxReadTicks /\ Tick

ReadSpec == ReadInit /\ [][ReadNext]_vars

\* the pin: one submission of any media, Broadcast, the pin of the post
\* next to the fan-out; pinChatMessage settles and the wait ends
PinSteps ==
  \/ \E t \in pin, o \in PinOutcomes : PinResult(t, o)
  \/ \E t \in pin : PinWake(t)

PinNext ==
  \/ Len(upd) < 1 /\ Arrive(1)
  \/ Start(1, "confess", TRUE, "text", << "z" >>, 121)
  \/ \E media \in {"photo", "audio", "voice"} :
       Start(1, "post", TRUE, media, << "z" >>, 121)
  \/ EditReview(1)
  \/ WriteBack(1)
  \/ \E m \in 1..Len(review) : nPress < MaxPinPress /\ Press("Broadcast", m)
  \/ DecPublish
  \/ DecRecord(TRUE)
  \/ \E t \in fan : FanReadConfig(t)
  \/ \E t \in fan, o \in {"ok", "other"} : FanSend(t, o)
  \/ PinSteps

PinSpec == FanoutInit /\ [][PinNext]_vars /\ WF_vars(PinSteps)

\* the limiters: calls of the three classes arriving faster than they leave
LimiterNext ==
  \/ \E c \in Classes : Cardinality(thr.calls) < MaxCalls /\ Submit(c)
  \/ \E k \in thr.calls : Dispatch(k)
  \/ \E k \in thr.calls : Complete(k)
  \/ \E c \in Classes : Refill(c)
  \/ now < Epoch + MaxLimiterTicks /\ Tick

LimiterSpec == FanoutInit /\ [][LimiterNext]_vars

\* the mapping table: a photo approved, once or twice, and calls of
\* mapPostToUser for the same post ids with either user, before and after
MapNext ==
  \/ Len(upd) < 1 /\ Arrive(1)
  \/ Start(1, "post", TRUE, "photo", << "z" >>, 121)
  \/ EditReview(1)
  \/ WriteBack(1)
  \/ \E m \in 1..Len(review) : nPress < MaxMapPress /\ Press("Approve", m)
  \/ DecPublish
  \/ DecRecord(TRUE)
  \/ \E postId \in 0..MaxMapPost, userId \in {0} \cup Users :
       Len(mapLog) < MaxMapCalls /\ MapPost(postId, userId)

MapSpec == Init /\ [][MapNext]_vars

\* text updates of groups and of a private chat, and their logGroup calls
LogNext ==
  \/ \E c \in Groups \cup {1} : Len(grp) < MaxGroupMsg /\ GroupMessage(c)
  \/ \E k \in 1..Len(grp), o \in LogOutcomes : LogReport(k, o)

LogSpec == Init /\ [][LogNext]_vars

\* the topic commands of callers of every role
RoleNext ==
  \/ \E g \in Groups, th \in 1..MaxThread, role \in Roles :
       nTopic < MaxRoleCmd /\ SetTopic(g, th, role)
  \/ \E g \in Groups, role \in Roles : nTopic < MaxRoleCmd /\ ClearTopic(g, role)

RoleSpec == Init /\ [][RoleNext]_vars

\* decisions on the items of one author whose notice can be rejected
NoticeNext ==
  \/ Len(upd) < MaxNoticeUpd /\ Arrive(1)
  \/ \E i \in 1..MaxNoticeUpd, media \in {"text", "photo"} :
       Start(i, IF media = "text" THEN "confess" ELSE "post", TRUE, media, << "z" >>, 121)
  \/ \E i \in 1..MaxNoticeUpd : EditReview(i)
  \/ \E i \in 1..MaxNoticeUpd : WriteBack(i)
  \/ \E b \in {"Approve", "Broadcast"}, m \in 1..Len(review) :
       nPress < MaxNoticePress /\ Press(b, m)
  \/ DecPublish
  \/ \E notified \in BOOLEAN : DecRecord(notified)

NoticeSpec == RaceInit /\ [][NoticeNext]_vars

\* submissions of one user whose later calls can be rejected
ChargeNext ==
  \/ Len(upd) < MaxChargeUpd /\ Arrive(1)
  \/ \E i \in 1..MaxChargeUpd, media \in {"text", "photo"} :
       Start(i, IF media = "text" THEN "confess" ELSE "post", TRUE, media, << "z" >>, 121)
  \/ \E i \in 1..MaxChargeUpd : EditReview(i)
  \/ \E i \in 1..MaxChargeUpd, step \in {"edit", "backup"} : EditReviewFails(i, step)
  \/ \E i \in 1..MaxChargeUpd : WriteBack(i)
  \/ now < Epoch + MaxChargeTicks /\ Tick

ChargeSpec == RaceInit /\ [][ChargeNext]_vars

\* reads and refreshes of the chat-id list while chats are deleted and join
DeleteNext ==
  \/ Cardinality(readers) < MaxDelReads /\ ReadStart
  \/ Cardinality(readers) < MaxDelReads /\ ReadRefresh
  \/ \E r \in readers : ReadQuery(r)
  \/ \E r \in readers, ok \in BOOLEAN : ReadReturn(r, ok)
  \/ \E g \in Groups : DeleteChatID(g)
  \/ \E g \in Groups : ChatJoin(g)

DeleteSpec == Init /\ [][DeleteNext]_vars

\* the codec alone, over every user id of the range
CodecInit ==
  /\ PipeInit
  /\ cu \in 1..MaxCodecId
  /\ cpost \in {1, 10 ^ MaxPostDigits - 1}
  /\ ctag = Blank /\ cdec = NaN /\ chdr = Blank /\ cres = NaN

CodecNext == CodecEncode \/ CodecDecode \/ CodecResolve

CodecSpec == CodecInit /\ [][CodecNext]_vars

\* ------------------------------------------------------------------------
\* Properties
\* ------------------------------------------------------------------------
Started(i) == upd[i].outcome \notin {"none", "notDM"}
Finished(i) == upd[i].pc \in {"handled", "done"}
ValidationFailures == {"link", "empty", "nomedia", "toolong"}
ItemsOf(i) == {m \in 1..Len(review) : review[m].of = i}
PostsOf(m) == {p \in 1..Len(channel) : channel[p].item = m}
RecordedOf(u, m) ==
  IF store[u] = NoRow THEN {}
  ELSE {k \in 1..Len(store[u].confessions) : store[u].confessions[k] \in PostsOf(m)}

\* C1: whatever buttons are pressed on one pending review message, at most
\* one post is published to the channel for it and at most one entry is added
\* to the author's confessions for it.
C1_OneTerminalAction ==
  \A m \in 1..Len(review) :
    /\ Cardinality(PostsOf(m)) <= 1
    /\ \A u \in Users : Cardinality(RecordedOf(u, m)) <= 1

C4_BannedSilentDiscard ==
  \A i \in 1..Len(upd) :
    (upd[i].seen.isBanned /\ Started(i) /\ Finished(i)
       /\ upd[i].outcome \notin ValidationFailures) =>
      /\ \A m \in ItemsOf(i) : ~review[m].menu
      /\ [to |-> upd[i].user, kind |-> "discarded", src |-> << "upd", i >>] \in sent
      /\ [to |-> BACKUP_ID, kind |-> "audit", src |-> << "upd", i >>] \in sent
      /\ \E m \in ItemsOf(i) : review[m].kind = "audit"
      /\ upd[i].sess.freeConfessions = upd[i].seen.freeConfessions

\* C5: a banned user who submits inside the cooldown window without a credit
\* is put on the silent discard path and gets no wait-time reply.
C5_BanBeforeCooldown ==
  \A i \in 1..Len(upd) :
    LET s == upd[i].seen
    IN (Started(i) /\ s.isBanned /\ s.freeConfessions = 0 /\ s.confessionTime # 0
          /\ upd[i].tCheck - s.confessionTime < ConfessionLimitResetMs) =>
         /\ upd[i].outcome = "banned"
         /\ [to |-> upd[i].user, kind |-> "cooldown", src |-> << "upd", i >>] \notin sent

\* C6: for every user id of the range, the tag written for it decodes to it,
\* from the first line of the review message and from the header of the post,
\* and no other id of the range has the same tag.
C6_RoundTrip ==
  /\ chdr # Blank => cdec = Num(cu)
  /\ cres # NaN => cres = Num(cu)
  /\ ctag # Blank => \A v \in 1..MaxCodecId : Encode(v) = ctag => v = cu

C6_Witness == cres = Num(cu) /\ cu > Encryption /\ Len(ctag) > 1

\* C7: a decision on a review message whose first line does not decode to a
\* number sends nothing, publishes nothing and changes no stored state.
C7_UndecodableNoEffect ==
  [][(/\ dec.pc = "idle"
      /\ presses # << >>
      /\ presses' = Tail(presses)
      /\ Decode(Head(presses).lines[1]).nan)
       => UNCHANGED << channel, sent, store, postUserCache, postUserMap, review,
                       config, pinned >>]_vars

\* C8: when an Approve or Broadcast decision has recorded post p for author
\* u, the remember-cache and the persistent map both hold p -> u.
C8_BothMappings ==
  [][(dec.pc = "write" /\ dec.button \in {"Approve", "Broadcast"} /\ dec'.pc = "idle")
       => /\ dec.post \in DOMAIN postUserCache'
          /\ postUserCache'[dec.post].uid = dec.userID.val
          /\ \E k \in 1..Len(postUserMap') :
               postUserMap'[k] = [post_id |-> dec.post, user_id |-> dec.userID.val]]_vars

\* C9: no fan-out task and no notice goes to the channel, the log chat, the
\* discussion chat, the review chat or the backup chat, nor to an id that is
\* not negative.
C9_NoExcludedTarget ==
  /\ \A t \in fan : t.chat < 0 /\ t.chat \notin Excluded
  /\ \A r \in sent : r.kind = "notice" => r.to < 0 /\ r.to \notin Excluded

C9_Witness ==
  /\ chatIdsCache # NoEntry
  /\ Excluded \subseteq chatIdsCache.value
  /\ \E id \in chatIdsCache.value : id > 0
  /\ \E t1, t2 \in fan :
       /\ t1.by = "Broadcast" /\ t1.st = "done"
       /\ t2.by = "command" /\ t2.st = "done"

Attempted(t) ==
  \E r \in sent : r.kind = "notice" /\ r.to = t.chat /\ r.src[2] = t.pass

\* C10: every chat of a fan-out that is no longer waiting for its first send
\* has had a send attempt, whatever happened to the other chats, and a step of
\* a fan-out task leaves the decision handler and the queued presses alone.
C10_IsolatedFailures ==
  /\ [](\A t \in fan : t.st \notin {"start", "read"} => Attempted(t))
  /\ [][(fan' # fan /\ nPass' = nPass) => UNCHANGED << dec, presses, channel, store >>]_vars

C10_Witness ==
  \E t1, t2 \in fan :
    /\ t1.pass = t2.pass /\ t1.chat # t2.chat
    /\ t1.st = "failed" /\ t2.st = "done"

NoticesTo(c, pass) ==
  {r \in sent : r.kind = "notice" /\ r.to = c /\ r.src[2] = pass}

\* C11: after a fan-out send to chat c has failed with 'chat not found', c has
\* no row in the config table, the cached chat-id list does not hold c, c has
\* no topic-cache entry, and that send is the last one to c in its pass.
C11_StaleChatRemoved ==
  \A r \in sent :
    (r.kind = "notice" /\ r.res = "notFound") =>
      /\ r.to \notin DOMAIN config
      /\ chatIdsCache # NoEntry => r.to \notin chatIdsCache.value
      /\ topicCache[r.to] = 0
      /\ \A q \in NoticesTo(r.to, r.src[2]) : q.src[3] <= r.src[3]

InHandler(i) == upd[i].pc \in {"sent", "banned", "handled"}

\* C12: while a decision is between its readID and its writeID of user u's
\* row, no update of u is inside its handler with the session not yet
\* written back.
C12_SingleWriter ==
  ~(/\ dec.pc = "write"
    /\ \E i \in 1..Len(upd) : upd[i].user = dec.userID.val /\ InHandler(i))

\* C13: a /grant or /unban, which reads a row with readID and writes it with
\* writeID, changes only the field it is about: confessionTime and confessions
\* of the stored row stay as they are in the store, /grant keeps isBanned and
\* /unban keeps freeConfessions.
C13_CacheNeverStale ==
  [][(nGrant' # nGrant \/ nUnban' # nUnban) =>
       \A u \in Users :
         store[u] # NoRow =>
           /\ store'[u].confessionTime = store[u].confessionTime
           /\ store'[u].confessions = store[u].confessions
           /\ nGrant' # nGrant => store'[u].isBanned = store[u].isBanned
           /\ nUnban' # nUnban => store'[u].freeConfessions = store[u].freeConfessions]_vars

\* C14: the stored isBanned of a user goes from true to false only in an
\* /unban step.
C14_BanPersists ==
  [][\A u \in Users :
       (store[u] # NoRow /\ store[u].isBanned /\ ~store'[u].isBanned)
         => nUnban' = nUnban + 1]_vars

IsSuffix(s, t) == Len(s) <= Len(t) /\ SubSeq(t, Len(t) - Len(s) + 1, Len(t)) = s

\* C15: every step keeps the stored confessions of a user as a suffix of the
\* new ones: entries are only added at the front.
C15_AppendOnly ==
  [][\A u \in Users :
       store[u] # NoRow =>
         /\ store'[u] # NoRow
         /\ IsSuffix(store[u].confessions, store'[u].confessions)]_vars

\* a Ban press on an item whose first line is the tag of a user with a row
BanOnAuthor ==
  /\ dec.pc = "idle"
  /\ presses # << >>
  /\ presses' = Tail(presses)
  /\ Head(presses).button = "Ban"
  /\ ReadID(Decode(Head(presses).lines[1])) # NoRow

\* C16: a Ban decision on the item of a user with a stored session, of any
\* media type, goes on to write the row, and that write stores isBanned = true
\* and appends to the review chat an audit message of the same media type
\* whose first line starts with the user id in decimal.
C16_BanEveryMedia ==
  [][/\ BanOnAuthor => dec'.pc = "write"
     /\ (dec.pc = "write" /\ dec.button = "Ban" /\ dec'.pc = "idle") =>
          LET u == dec.userID.val
              a == review'[Len(review')]
          IN /\ store'[u].isBanned
             /\ Len(review') = Len(review) + 1
             /\ a.media = dec.media
             /\ StartsWith(a.lines[1], NatToString(u, 10))]_vars

\* C17: whatever /ref commands a referee sends, the reply that credits were
\* granted is sent to the referee at most once.
C17_ReferralOnce ==
  \A u \in Users :
    Cardinality({r \in sent : r.kind = "refgranted" /\ r.to = u}) <= 1

\* C18: the stored freeConfessions of every user is at least 0.
C18_CreditsNonNegative ==
  \A u \in Users : store[u] # NoRow => store[u].freeConfessions >= 0

Accepted(i) == upd[i].outcome \in {"pending", "banned"}

FailsValidation(i) ==
  \/ upd[i].cmd = "confess" /\ (linkChecker(upd[i].text) \/ Len(upd[i].text) = 0)
  \/ upd[i].cmd = "post" /\ upd[i].media = "none"
  \/ upd[i].cmd = "post" /\ upd[i].media \in {"audio", "voice"} /\ upd[i].dur > 121

ValidHeader(body) ==
  /\ HasHeader(body)
  /\ ~Decode(HeaderGroups(body).encUser).nan
  /\ PostNumber(HeaderGroups(body).postStr) > 0

NearestHeader(ch) ==
  LET places == {k \in 1..Len(ch) : k <= MaxHops /\ ValidHeader(ch[k])}
  IN IF places = {} THEN 0
     ELSE CHOOSE k \in places : \A j \in places : k <= j

\* the comment handler has run through, and not ended at the link test
Resolved == rsv.pc = "done" /\ ~linkChecker(rsv.text)

CommentsTo(n) == {m \in sent : m.kind = "comment" /\ m.src = << "cmt", n >>}

C21_WitnessBeyond ==
  /\ Resolved
  /\ Len(rsv.chain) > MaxHops
  /\ ValidHeader(rsv.chain[MaxHops + 1])
  /\ ~rsv.root.found

\* C22: in the fallback post_user_map is queried only when the memory cache
\* gave no user, and the sessions are searched only when the memory cache and
\* post_user_map both gave none
C22_FallbackOrder ==
  /\ "map" \in rsv.lookups => rsv.cachedUid = 0
  /\ "search" \in rsv.lookups => rsv.cachedUid = 0 /\ rsv.mappedUid = 0

\* the second half of C22 on its own
SearchOnlyAfterBothMiss ==
  "postId" \in rsv.lookups => rsv.cachedUid = 0 /\ rsv.mappedUid = 0

\* C23: once the fallback has resolved the post of a thread through
\* post_user_map or the session search, a later comment on that thread within
\* the cache lifetime is resolved without a query of post_user_map or of the
\* session table
C23_RepeatServedFromCache ==
  (rsv.pc = "done" /\ rsv.prior) => rsv.lookups \cap {"map", "search"} = {}

\* C24: a step of the comment handler changes no table and no cached row;
\* while no user id is resolved it sends nothing and leaves postIdCache as it
\* is, it drops at most an expired entry of postUserCache, and a failed query
\* ends the handler like an empty one
C24_FailureSilent ==
  [][rsv' # rsv =>
       /\ UNCHANGED << store, userCache, postUserMap, config, chatIdsCache,
                       topicCache, review, channel, pinned, mapLog >>
       /\ rsv'.pc \in {"map", "search", "done"}
       /\ (rsv'.chatID = 0 /\ ~linkChecker(rsv'.text)) =>
            /\ sent' = sent
            /\ postIdCache' = postIdCache
            /\ \A q \in DOMAIN postUserCache' :
                 q \in DOMAIN postUserCache /\ postUserCache'[q] = postUserCache[q]
            /\ \A q \in DOMAIN postUserCache \ DOMAIN postUserCache' :
                 now - postUserCache[q].ts > POST_USER_TTL]_vars

\* C24 witness: a comment on a thread went through the memory cache,
\* post_user_map and the session search, a query failed, no user was found
C24_Witness ==
  /\ Resolved
  /\ rsv.thread > 0
  /\ rsv.chatID = 0
  /\ {"memory", "map", "search", "searchError"} \subseteq rsv.lookups
  /\ CommentsTo(rsv.n) = {}

\* C25: a cached chat-id list older than its TTL is refreshed by one query:
\* of the reads that found it expired no two have a query of the config
\* table on its way at the same time
C25_OneRefreshQuery ==
  Cardinality({r \in readers : r.st \in {"query", "rows"} /\ r.expired}) <= 1

\* the rest of C25: a read that finds a fresh list returns the cached list
HitReturnsCached ==
  [][\A r \in readers' \ readers : r.st = "hit" => r.value = chatIdsCache.value]_vars

\* C26: a second send to a chat in a pass is made only after the first one
\* failed with 'topic must be specified', goes into thread 1, is made only
\* when getChat says forum supergroup, and is the last one: when it fails the
\* task has failed, and no pass sends to a chat more than twice
C26_TopicRetryOnce ==
  /\ \A r \in sent :
       (r.kind = "notice" /\ r.src[3] = 2) =>
         /\ r.src[4] = 1
         /\ r.forum
         /\ \E q \in NoticesTo(r.to, r.src[2]) : q.src[3] = 1 /\ q.res = "topic"
         /\ \A t \in fan :
              (t.chat = r.to /\ t.pass = r.src[2]) =>
                t.st = (IF r.res = "ok" THEN "done" ELSE "failed")
  /\ \A t \in fan :
       /\ \A q \in NoticesTo(t.chat, t.pass) : q.src[3] \in {1, 2}
       /\ t.st = "retry" => \A q \in NoticesTo(t.chat, t.pass) : q.src[3] = 1

\* C26 witness: a retry into thread 1 that failed as well
C26_Witness ==
  \E t \in fan, r \in sent :
    /\ r.kind = "notice" /\ r.to = t.chat /\ r.src = << "fan", t.pass, 2, 1 >>
    /\ r.res = "topic"
    /\ t.st = "failed"

\* C27: the topic cache of a chat never holds a thread that differs from the
\* one stored in the chat's config row, so a fan-out that reads the cache
\* sends into the stored thread
C27_TopicCacheCurrent ==
  \A g \in Groups : topicCache[g] # 0 => topicCache[g] = ConfigThread(g)

PinPending == \E t \in pin : t.st \in {"call", "wait"}

\* C28: the pin of a broadcast post makes at most 3 calls, every call after
\* the first follows an error 'dropped by bottleneck' and a wait of 500 ms
\* times the number of the failed attempt, the pin comes to an end, and a
\* step of the pin, its final failure included, leaves the fan-out, the
\* tables and the messages as they are
C28_PinBounded ==
  /\ [](\A t \in pin :
          /\ t.i + 1 <= PIN_TRIES
          /\ Len(t.waits) \in {t.i, t.i + 1}
          /\ \A k \in 1..Len(t.waits) :
               t.errs[k] = "dropped" /\ t.waits[k] = PIN_BACKOFF_MS * k
          /\ Len(t.waits) = t.i + 1 => t.st = "wait")
  /\ [][pin' # pin /\ nPass' = nPass =>
          UNCHANGED << fan, store, userCache, postUserCache, postUserMap,
                       config, review, channel, sent, dec >>]_vars
  /\ (PinPending ~> ~PinPending)

\* C28 witness: a pin given up after three dropped calls while the fan-out
\* of the same pass delivered
C28_Witness ==
  \E t \in pin, f \in fan :
    /\ t.st = "failed" /\ t.i = PIN_TRIES - 1
    /\ t.waits = << PIN_BACKOFF_MS, 2 * PIN_BACKOFF_MS >>
    /\ f.pass = t.pass /\ f.st = "done"

\* C29: no outbound call is dropped by its limiter: a call that arrives with
\* its class over capacity waits in the queue until it is admitted
C29_NeverDropped ==
  \A k \in thr.calls : k.st # "dropped"

\* the rest of C29: while the penalty of a class runs none of its calls is
\* admitted, and after it calls are admitted again
PenaltyAdmitsNothing ==
  [][\A k \in thr.calls, j \in thr'.calls :
       (j.id = k.id /\ k.st = "queued" /\ j.st = "running")
         => now >= thr.unblock[k.class]]_vars

RowsOf(postId) == {k \in 1..Len(postUserMap) : postUserMap[k].post_id = postId}
WritesOf(postId) == {k \in 1..Len(mapLog) : mapLog[k].post_id = postId}

\* C30: post_user_map holds one row for every post id that was recorded,
\* however often, with the user id of the last recording, and no other row
C30_OneRowLastWrite ==
  /\ \A k \in 1..Len(mapLog) :
       LET p == mapLog[k].post_id
           last == CHOOSE j \in WritesOf(p) : \A i \in WritesOf(p) : i <= j
       IN /\ Cardinality(RowsOf(p)) = 1
          /\ \A r \in RowsOf(p) : postUserMap[r].user_id = mapLog[last].user_id
  /\ \A r \in 1..Len(postUserMap) : WritesOf(postUserMap[r].post_id) # {}

\* C30 witness: a post id recorded for user 2 and then, by the photo branch
\* of Approve, three times for user 1
C30_Witness ==
  \E i, j, k, l \in 1..Len(mapLog) :
    /\ i < j /\ j < k /\ k < l
    /\ mapLog[j] = mapLog[k] /\ mapLog[k] = mapLog[l]
    /\ mapLog[i].post_id = mapLog[j].post_id
    /\ mapLog[i].user_id = 2 /\ mapLog[j].user_id = 1
    /\ \E m \in sent : m.kind = "published"


\* the reports of chat c in the log chat
ReportsOf(c) == {m \in sent : m.kind = "groupLog" /\ m.chat = c}

\* C31: a chat's metadata is reported to the log chat at most once: after a
\* successful report isLogged is stored as true for the chat and no later
\* message of the chat is followed by another report
C31_ReportedOnce ==
  \A c \in Groups :
    /\ Cardinality(ReportsOf(c)) <= 1
    /\ ReportsOf(c) # {} => c \in DOMAIN config /\ config[c].isLogged


\* the stored thread of chat c (0: none)
StoredThread(cfg, c) == IF c \in DOMAIN cfg THEN cfg[c].threadId ELSE 0

\* C32: /settopic and /cleartopic change a chat's stored threadId only when
\* the caller is verified to be an administrator or the creator of the chat;
\* when the role lookup fails or the caller is unknown it stays as it was
C32_TopicOnlyByAdmin ==
  [][\A g \in Groups :
       StoredThread(config', g) # StoredThread(config, g)
         => \E m \in sent' \ sent :
              m.to = g /\ m.role \in {"administrator", "creator"}]_vars


\* a text shows an author: it has the '@username' line, or a line after the
\* first that is the decimal id of a user (the tag is always the first line)
ShowsAuthor(lines) ==
  \E j \in 1..Len(lines) :
    \/ lines[j] = AtUsername
    \/ j > 1 /\ \E u \in Users : lines[j] = NatToString(u, 10)

\* C33: nothing sent to the public channel at any time carries the author's
\* numeric id, display name or username, also when Approve or Broadcast is
\* pressed between the delivery of a /post submission to the review chat and
\* the rewrite of its caption to the tag form
C33_NoIdentityInChannel ==
  \A k \in 1..Len(channel) :
    ~ShowsAuthor(channel[k].first) /\ ~ShowsAuthor(channel[k].lines)


\* C34: whenever a message of the review chat carries the decision control,
\* its first line is the radix-32 tag of the user who submitted it, so every
\* decision acts on the submitter and on no other user
C34_ControlImpliesTag ==
  /\ \A m \in 1..Len(review) :
       review[m].menu /\ ~review[m].deleted
         => review[m].lines # << >> /\ review[m].lines[1] = Encode(review[m].author)
  /\ dec.pc = "write" => dec.userID.val = review[dec.msg].author
  /\ \A k \in 1..Len(channel) :
       channel[k].lines[1] = HeaderLine(Num(review[channel[k].item].author), k)


\* the user a header-shaped body names
NamedBy(body) == Decode(HeaderGroups(body).encUser).val

\* in a reply chain every message but the last is itself a reply, written in
\* the discussion chat; only the last can be the forwarded channel post
ForgedHeaders(ch) == {k \in 1..Len(ch) - 1 : ValidHeader(ch[k])}

\* C35: a comment is forwarded only to the author of the channel post it is
\* under: a string Confession-<tag>-<n> that a participant wrote in a
\* discussion message does not make replies to that message go to the user
\* the tag decodes to (unless the post at the top of the chain names that user)
C35_ForgedHeaderIgnored ==
  Resolved =>
    \A k \in ForgedHeaders(rsv.chain) :
      (\E m \in CommentsTo(rsv.n) : m.to = NamedBy(rsv.chain[k]))
        => /\ ValidHeader(rsv.chain[Len(rsv.chain)])
           /\ NamedBy(rsv.chain[Len(rsv.chain)]) = NamedBy(rsv.chain[k])


\* the decision that published post k has been recorded for the user its
\* header names and is no longer running
DecidedFor(k) ==
  /\ ~(dec.pc = "write" /\ dec.post = k)
  /\ \E u \in Users :
       /\ channel[k].lines[1] = HeaderLine(Num(u), k)
       /\ store[u] # NoRow
       /\ \E j \in 1..Len(store[u].confessions) : store[u].confessions[j] = k

\* C36: after a decision has published a post the control of the pending
\* item is closed, also when the notice to the author fails, so that the
\* item cannot be decided and published again
C36_ClosedAfterPublish ==
  \A k \in 1..Len(channel) :
    DecidedFor(k) => ~review[channel[k].item].menu


\* the session of the user the header of post k names cannot be read
Unreadable(k) ==
  \A u \in Users : channel[k].lines[1] = HeaderLine(Num(u), k) => store[u] = NoRow

\* post k is in the confessions of a user and in post_user_map
RecordedPost(k) ==
  /\ \E u \in Users :
       /\ store[u] # NoRow
       /\ \E j \in 1..Len(store[u].confessions) : store[u].confessions[j] = k
  /\ \E r \in 1..Len(postUserMap) : postUserMap[r].post_id = k

\* C37: a decision never leaves an unrecorded post in the public channel: when
\* the author's session cannot be read (readID returns undefined), either
\* nothing has been published or the post id is recorded in the author's
\* confessions and in the post-to-user mapping
C37_NoUnrecordedPost ==
  \A k \in 1..Len(channel) : Unreadable(k) => RecordedPost(k)


\* the handler of update i delivered an item with the control and has ended
Delivered(i) == upd[i].msg # 0 /\ upd[i].pc \in {"done", "failed"}

\* C38: whenever a submission has been delivered to the review chat with the
\* decision control, the stored confessionTime of the submitter is that of
\* the submission or later, also when the tag rewrite or the backup copy
\* fails afterwards: no item is pending without the throttle being charged
C38_DeliveredIsCharged ==
  \A i \in 1..Len(upd) :
    Delivered(i) =>
      /\ store[upd[i].user] # NoRow
      /\ store[upd[i].user].confessionTime >= upd[i].tCheck


\* C39: after deleteChatID(c) has completed no later readChatIDAll returns
\* a list with c, until c registers again, also when a refresh of the list
\* was on its way as c was deleted: a read served from the cache returns no
\* chat that had no row when the read was made
C39_DeletedNotReturned ==
  \A r \in readers : r.st = "hit" => r.value \cap r.gone = {}


\* update i is a /ref whose argument is the id of its own sender
SelfReferral(i) ==
  /\ upd[i].cmd = "ref"
  /\ upd[i].text # << >> /\ IsNumeric(upd[i].text)
  /\ NumberOf(upd[i].text) = upd[i].user

\* C40: a user gets no bonus credit by naming their own id in /ref: a
\* self-referral changes neither freeConfessions nor refby of the user
C40_NoSelfReferral ==
  \A i \in 1..Len(upd) :
    SelfReferral(i) =>
      /\ upd[i].sess.refby = upd[i].seen.refby
      /\ upd[i].sess.freeConfessions = upd[i].seen.freeConfessions
      /\ upd[i].outcome = "refnone"

============================================================================
